---- MODULE Spec2Model ----
(***************************************************************************)
(* Model of the MySQL RA-TLS launcher                                      *)
(* (examples/mysql-ratls/files/mysql_ratls_launcher.c): option resolution  *)
(* (parse_args), port negotiation (is_port_available,                      *)
(* find_available_port) and the start-up sequence of main() up to the      *)
(* hand-off to mysqld.                                                     *)
(*                                                                         *)
(* Text is a sequence of symbols.  A symbol is a one-character string, or  *)
(* an opaque chunk (a longer string) standing for a run of characters that *)
(* are neither '-', ' ', a sign nor a digit.  A command-line token is a    *)
(* record [opt, eq, val]: "--name=val" is [opt |-> "--name", eq |-> TRUE], *)
(* "--name" is [opt |-> "--name", eq |-> FALSE, val |-> <<>>] and any      *)
(* other text is [opt |-> "", eq |-> FALSE, val |-> text].                 *)
(***************************************************************************)
EXTENDS Integers, Sequences, FiniteSets, TLC

(***************************************************************************)
(* Bounds of the model.                                                    *)
(***************************************************************************)
\* longest argument vector (after the program name) drawn as an input
MaxArgc == 2
\* most I/O operations (mkdir, fopen, copy, unlink, execv) that fail in a run
MaxIoFailures == 1
\* most starts of the launcher on one storage
MaxStarts == 2
\* longest seed string drawn as an input
MaxSeedsLen == 4

(***************************************************************************)
(* Program constants.                                                      *)
(***************************************************************************)
GR_DEFAULT_PORT == 33061
MYSQL_DEFAULT_PORT == 3306
MAX_PORT == 65535

NULL == <<"(null)">>
DEFAULT_CERT_PATH == <<"/var/lib/mysql-ssl/server-cert.pem">>
DEFAULT_KEY_PATH == <<"/app/wallet/mysql-keys/server-key.pem">>
DEFAULT_DATA_DIR == <<"/app/wallet/mysql-data">>

(***************************************************************************)
(* C library helpers.                                                      *)
(***************************************************************************)
Digits == {"0", "1", "2", "3", "4", "5", "6", "7", "8", "9"}

DigitVal(c) ==
    CASE c = "0" -> 0 [] c = "1" -> 1 [] c = "2" -> 2 [] c = "3" -> 3
      [] c = "4" -> 4 [] c = "5" -> 5 [] c = "6" -> 6 [] c = "7" -> 7
      [] c = "8" -> 8 [] c = "9" -> 9

\* strlen(s) > 0 for a non-NULL text
NonEmpty(s) == s # NULL /\ Len(s) > 0

RECURSIVE AtoiDigits(_, _, _)
AtoiDigits(s, i, acc) ==
    IF i > Len(s) \/ s[i] \notin Digits THEN acc
    ELSE AtoiDigits(s, i + 1, acc * 10 + DigitVal(s[i]))

RECURSIVE SkipSpaces(_, _)
SkipSpaces(s, i) ==
    IF i <= Len(s) /\ s[i] = " " THEN SkipSpaces(s, i + 1) ELSE i

\* atoi(): leading blanks, an optional sign, then the longest run of digits
Atoi(s) ==
    LET i == SkipSpaces(s, 1) IN
    IF i <= Len(s) /\ s[i] = "-" THEN 0 - AtoiDigits(s, i + 1, 0)
    ELSE IF i <= Len(s) /\ s[i] = "+" THEN AtoiDigits(s, i + 1, 0)
    ELSE AtoiDigits(s, i, 0)

ToLower(c) ==
    CASE c = "T" -> "t" [] c = "R" -> "r" [] c = "U" -> "u" [] c = "E" -> "e"
      [] OTHER -> c

\* strcmp(val, "1") == 0 || strcasecmp(val, "true") == 0
ParseBool(s) ==
    \/ s = <<"1">>
    \/ /\ Len(s) = 4
       /\ [i \in 1..4 |-> ToLower(s[i])] = <<"t", "r", "u", "e">>

\* argv[i][0] == '-'
StartsWithDash(t) ==
    IF t.opt # "" THEN TRUE ELSE Len(t.val) > 0 /\ t.val[1] = "-"

(***************************************************************************)
(* struct launcher_config, as parse_args initialises it.                   *)
(***************************************************************************)
InitConfig ==
    [contract_address |-> NULL, rpc_url |-> NULL, whitelist_config |-> NULL,
     cert_path |-> NULL, key_path |-> NULL, data_dir |-> NULL,
     ra_tls_cert_algorithm |-> NULL, ratls_enable_verify |-> NULL,
     ratls_require_peer_cert |-> NULL, ra_tls_allow_outdated_tcb |-> NULL,
     ra_tls_allow_hw_config_needed |-> NULL,
     ra_tls_allow_sw_hardening_needed |-> NULL,
     gr_group_name |-> NULL, gr_seeds |-> NULL, gr_local_address |-> NULL,
     gr_port |-> GR_DEFAULT_PORT, gr_port_specified |-> 0,
     gr_bootstrap |-> 0, gr_debug |-> 0,
     mysql_port |-> 0, mysql_port_specified |-> 0,
     dry_run |-> 0, test_lan_ip |-> NULL, test_output_dir |-> NULL,
     gcs_debug_trace_path |-> NULL,
     mysql_argv |-> <<>>]

\* the options handled by PARSE_OPTION: option name -> config field
StringOption ==
    [o \in {"--contract-address", "--rpc-url", "--cert-path",
            "--ra-tls-cert-algorithm", "--ratls-enable-verify",
            "--ratls-require-peer-cert", "--ra-tls-allow-outdated-tcb",
            "--ra-tls-allow-hw-config-needed",
            "--ra-tls-allow-sw-hardening-needed",
            "--gr-group-name", "--gr-seeds", "--gr-local-address",
            "--test-lan-ip", "--test-output-dir", "--gcs-debug-trace-path"} |->
       CASE o = "--contract-address" -> "contract_address"
         [] o = "--rpc-url" -> "rpc_url"
         [] o = "--cert-path" -> "cert_path"
         [] o = "--ra-tls-cert-algorithm" -> "ra_tls_cert_algorithm"
         [] o = "--ratls-enable-verify" -> "ratls_enable_verify"
         [] o = "--ratls-require-peer-cert" -> "ratls_require_peer_cert"
         [] o = "--ra-tls-allow-outdated-tcb" -> "ra_tls_allow_outdated_tcb"
         [] o = "--ra-tls-allow-hw-config-needed" -> "ra_tls_allow_hw_config_needed"
         [] o = "--ra-tls-allow-sw-hardening-needed" -> "ra_tls_allow_sw_hardening_needed"
         [] o = "--gr-group-name" -> "gr_group_name"
         [] o = "--gr-seeds" -> "gr_seeds"
         [] o = "--gr-local-address" -> "gr_local_address"
         [] o = "--test-lan-ip" -> "test_lan_ip"
         [] o = "--test-output-dir" -> "test_output_dir"
         [] o = "--gcs-debug-trace-path" -> "gcs_debug_trace_path"]

\* the flag options: option name -> config field
BoolOption ==
    [o \in {"--gr-bootstrap", "--gr-debug", "--dry-run"} |->
       CASE o = "--gr-bootstrap" -> "gr_bootstrap"
         [] o = "--gr-debug" -> "gr_debug"
         [] o = "--dry-run" -> "dry_run"]

\* the port options: option name -> config field
PortOption ==
    [o \in {"--gr-port", "--mysql-port"} |->
       CASE o = "--gr-port" -> "gr_port"
         [] o = "--mysql-port" -> "mysql_port"]

\* the field that records that a port was given explicitly
SpecifiedField(f) ==
    IF f = "gr_port" THEN "gr_port_specified" ELSE "mysql_port_specified"

\* environment variables applied with APPLY_ENV_VAR: name -> config field
StringEnv ==
    [e \in {"CONTRACT_ADDRESS", "RPC_URL", "RA_TLS_CERT_PATH",
            "RA_TLS_CERT_ALGORITHM", "RA_TLS_ENABLE_VERIFY",
            "RA_TLS_REQUIRE_PEER_CERT", "RA_TLS_ALLOW_OUTDATED_TCB_INSECURE",
            "RA_TLS_ALLOW_HW_CONFIG_NEEDED", "RA_TLS_ALLOW_SW_HARDENING_NEEDED",
            "MYSQL_GR_GROUP_NAME", "GR_SEEDS", "GR_LOCAL_ADDRESS",
            "TEST_LAN_IP", "TEST_OUTPUT_DIR", "GCS_DEBUG_TRACE_PATH"} |->
       CASE e = "CONTRACT_ADDRESS" -> "contract_address"
         [] e = "RPC_URL" -> "rpc_url"
         [] e = "RA_TLS_CERT_PATH" -> "cert_path"
         [] e = "RA_TLS_CERT_ALGORITHM" -> "ra_tls_cert_algorithm"
         [] e = "RA_TLS_ENABLE_VERIFY" -> "ratls_enable_verify"
         [] e = "RA_TLS_REQUIRE_PEER_CERT" -> "ratls_require_peer_cert"
         [] e = "RA_TLS_ALLOW_OUTDATED_TCB_INSECURE" -> "ra_tls_allow_outdated_tcb"
         [] e = "RA_TLS_ALLOW_HW_CONFIG_NEEDED" -> "ra_tls_allow_hw_config_needed"
         [] e = "RA_TLS_ALLOW_SW_HARDENING_NEEDED" -> "ra_tls_allow_sw_hardening_needed"
         [] e = "MYSQL_GR_GROUP_NAME" -> "gr_group_name"
         [] e = "GR_SEEDS" -> "gr_seeds"
         [] e = "GR_LOCAL_ADDRESS" -> "gr_local_address"
         [] e = "TEST_LAN_IP" -> "test_lan_ip"
         [] e = "TEST_OUTPUT_DIR" -> "test_output_dir"
         [] e = "GCS_DEBUG_TRACE_PATH" -> "gcs_debug_trace_path"]

\* environment variables applied with APPLY_ENV_VAR_BOOL
BoolEnv ==
    [e \in {"GR_BOOTSTRAP", "GR_DEBUG", "DRY_RUN"} |->
       CASE e = "GR_BOOTSTRAP" -> "gr_bootstrap"
         [] e = "GR_DEBUG" -> "gr_debug"
         [] e = "DRY_RUN" -> "dry_run"]

\* environment variables applied with APPLY_ENV_VAR_INT
PortEnv ==
    [e \in {"GR_PORT", "MYSQL_PORT"} |->
       CASE e = "GR_PORT" -> "gr_port"
         [] e = "MYSQL_PORT" -> "mysql_port"]

\* environment variables read with a bare getenv()
RawEnv ==
    [e \in {"RA_TLS_WHITELIST_CONFIG", "RA_TLS_KEY_PATH", "MYSQL_DATA_DIR"} |->
       CASE e = "RA_TLS_WHITELIST_CONFIG" -> "whitelist_config"
         [] e = "RA_TLS_KEY_PATH" -> "key_path"
         [] e = "MYSQL_DATA_DIR" -> "data_dir"]

EnvNames ==
    DOMAIN StringEnv \cup DOMAIN BoolEnv \cup DOMAIN PortEnv \cup DOMAIN RawEnv

\* getenv(name) returns a value of non-zero length
EnvSet(environ, e) == NonEmpty(environ[e])

(***************************************************************************)
(* parse_args, step 1: the loop over the command line.  The parse state is *)
(* [cfg, cli, exit]: the configuration so far, the fields whose cli_* flag *)
(* is set, and the exit status (-1 while the process is still running).    *)
(***************************************************************************)
ValidPort(v) == v > 0 /\ v <= MAX_PORT

\* the body of the two port branches once the value text is known
ParsePortValue(ps, f, text) ==
    LET v == Atoi(text) IN
    IF ~ValidPort(v)
    THEN [ps EXCEPT !.cfg[f] = v, !.exit = 1]
    ELSE [ps EXCEPT !.cfg[f] = v, !.cfg[SpecifiedField(f)] = 1,
                    !.cli = @ \cup {f}]

\* one iteration of the for loop: the parse state after argv[i], and the
\* index of the next token to look at
ParseToken(argv, i, ps) ==
    LET t == argv[i]
        hasValue == i + 1 <= Len(argv) /\ ~StartsWithDash(argv[i + 1])
    IN
    IF t.opt \in DOMAIN StringOption
    THEN IF t.eq
         THEN [ps |-> [ps EXCEPT !.cfg[StringOption[t.opt]] = t.val],
               next |-> i + 1]
         ELSE IF hasValue
              THEN [ps |-> [ps EXCEPT !.cfg[StringOption[t.opt]] = argv[i + 1].val],
                    next |-> i + 2]
              ELSE [ps |-> ps, next |-> i + 1]
    ELSE IF t.opt \in DOMAIN BoolOption
    THEN [ps |-> [ps EXCEPT !.cfg[BoolOption[t.opt]] =
                               IF t.eq THEN (IF ParseBool(t.val) THEN 1 ELSE 0)
                               ELSE 1,
                            !.cli = @ \cup {BoolOption[t.opt]}],
          next |-> i + 1]
    ELSE IF t.opt \in DOMAIN PortOption
    THEN IF t.eq
         THEN [ps |-> ParsePortValue(ps, PortOption[t.opt], t.val),
               next |-> i + 1]
         ELSE IF hasValue
              THEN [ps |-> ParsePortValue(ps, PortOption[t.opt], argv[i + 1].val),
                    next |-> i + 2]
              ELSE [ps |-> [ps EXCEPT !.exit = 1], next |-> i + 1]
    ELSE IF t.opt \in {"--help", "-h"} /\ ~t.eq
    THEN [ps |-> [ps EXCEPT !.exit = 0], next |-> i + 1]
    ELSE [ps |-> [ps EXCEPT !.cfg.mysql_argv = Append(@, t)], next |-> i + 1]

RECURSIVE ParseLoop(_, _, _)
ParseLoop(argv, i, ps) ==
    IF ps.exit # -1 \/ i > Len(argv) THEN ps
    ELSE LET r == ParseToken(argv, i, ps) IN ParseLoop(argv, r.next, r.ps)

(***************************************************************************)
(* parse_args, step 2: the environment, then the default paths.            *)
(***************************************************************************)
\* APPLY_ENV_VAR
\* variant: a value given on the command line is kept
ApplyEnvVarCliFirst(environ, e, cur) ==
    IF NonEmpty(cur) THEN cur
    ELSE IF EnvSet(environ, e) THEN environ[e] ELSE cur

ApplyEnvVar(environ, e, cur) ==
    IF EnvSet(environ, e) THEN environ[e] ELSE cur

\* APPLY_ENV_VAR_INT: the value and the *_specified flag
ApplyEnvVarInt(environ, e, cur, curSpecified) ==
    IF EnvSet(environ, e) /\ ValidPort(Atoi(environ[e]))
    THEN <<Atoi(environ[e]), 1>>
    ELSE <<cur, curSpecified>>

\* APPLY_ENV_VAR_BOOL
ApplyEnvVarBool(environ, e, cur) ==
    IF EnvSet(environ, e) THEN (IF ParseBool(environ[e]) THEN 1 ELSE 0) ELSE cur

\* the field of the configuration after the environment was applied
EnvField(environ, c, f) ==
    IF \E e \in DOMAIN StringEnv : StringEnv[e] = f
    THEN ApplyEnvVar(environ, CHOOSE e \in DOMAIN StringEnv : StringEnv[e] = f, c[f])
    ELSE IF \E e \in DOMAIN BoolEnv : BoolEnv[e] = f
    THEN ApplyEnvVarBool(environ, CHOOSE e \in DOMAIN BoolEnv : BoolEnv[e] = f, c[f])
    ELSE IF \E e \in DOMAIN PortEnv : PortEnv[e] = f
    THEN ApplyEnvVarInt(environ, CHOOSE e \in DOMAIN PortEnv : PortEnv[e] = f,
                        c[f], c[SpecifiedField(f)])[1]
    ELSE IF \E e \in DOMAIN PortEnv : SpecifiedField(PortEnv[e]) = f
    THEN LET e == CHOOSE x \in DOMAIN PortEnv : SpecifiedField(PortEnv[x]) = f
         IN ApplyEnvVarInt(environ, e, c[PortEnv[e]], c[f])[2]
    ELSE IF \E e \in DOMAIN RawEnv : RawEnv[e] = f
    THEN environ[CHOOSE e \in DOMAIN RawEnv : RawEnv[e] = f]
    ELSE c[f]

ApplyEnv(environ, c) == [f \in DOMAIN c |-> EnvField(environ, c, f)]

\* variant: only the certificate path has a default
ApplyDefaultsCertOnly(c) ==
    [c EXCEPT !.cert_path = IF NonEmpty(@) THEN @ ELSE DEFAULT_CERT_PATH]

\* "Apply defaults for paths if not set"
ApplyDefaults(c) ==
    [c EXCEPT !.cert_path = IF NonEmpty(@) THEN @ ELSE DEFAULT_CERT_PATH,
              !.key_path = IF NonEmpty(@) THEN @ ELSE DEFAULT_KEY_PATH,
              !.data_dir = IF NonEmpty(@) THEN @ ELSE DEFAULT_DATA_DIR]

\* the warnings "Environment variable ... overrides command-line argument"
OverrideWarnings(environ, ps) ==
    {e \in DOMAIN StringEnv : EnvSet(environ, e) /\ ps.cfg[StringEnv[e]] # NULL}
    \cup {e \in DOMAIN PortEnv : /\ EnvSet(environ, e)
                                 /\ ValidPort(Atoi(environ[e]))
                                 /\ PortEnv[e] \in ps.cli}
    \cup {e \in DOMAIN BoolEnv :
            /\ EnvSet(environ, e)
            /\ BoolEnv[e] \in ps.cli
            /\ ps.cfg[BoolEnv[e]] # (IF ParseBool(environ[e]) THEN 1 ELSE 0)}

\* parse_args(argc, argv, &config): the exit status (-1: it returned), the
\* configuration, the cli_* flags and the override warnings it printed
ParseArgs(argv, environ) ==
    LET ps == ParseLoop(argv, 1, [cfg |-> InitConfig, cli |-> {}, exit |-> -1])
    IN IF ps.exit # -1
       THEN [exit |-> ps.exit, cfg |-> ps.cfg, cli |-> ps.cli, warned |-> {}]
       ELSE [exit |-> -1, cfg |-> ApplyDefaults(ApplyEnv(environ, ps.cfg)),
             cli |-> ps.cli, warned |-> OverrideWarnings(environ, ps)]

\* validate_config: it only prints warnings; has_errors is never set
ValidateConfig(c) == 0

(***************************************************************************)
(* Port probing.  The occupancy of the host's TCP ports is a list of       *)
(* segments [lo, hi, r]: binding a port of lo..hi succeeds (r = 1), fails  *)
(* with EADDRINUSE (r = 0) or fails otherwise (r = -1); a port in no       *)
(* segment is free.                                                        *)
(***************************************************************************)
SegmentOf(pe, port) ==
    {k \in 1..Len(pe) : pe[k].lo <= port /\ port <= pe[k].hi}

\* is_port_available(port): 1 available, 0 occupied, -1 error
IsPortAvailable(pe, port) ==
    IF SegmentOf(pe, port) = {} THEN 1
    ELSE pe[CHOOSE k \in SegmentOf(pe, port) : TRUE].r

\* the last port that answers the probe as `port` does
SegmentEnd(pe, port) ==
    IF SegmentOf(pe, port) = {} THEN port
    ELSE pe[CHOOSE k \in SegmentOf(pe, port) : TRUE].hi

\* variant: the scan takes a port whose probe is inconclusive
RECURSIVE FindAvailablePortAcceptsError(_, _)
FindAvailablePortAcceptsError(pe, port) ==
    IF port > MAX_PORT THEN -1
    ELSE IF IsPortAvailable(pe, port) # 0 THEN port
    ELSE FindAvailablePortAcceptsError(pe, SegmentEnd(pe, port) + 1)

\* find_available_port(start_port): the loop "for (port = start_port;
\* port <= 65535; port++)".  Ports of one segment answer alike, so the
\* iterations over the rest of a segment that is not available are taken
\* in one step.
RECURSIVE FindAvailablePort(_, _)
FindAvailablePort(pe, port) ==
    IF port > MAX_PORT THEN -1
    ELSE IF IsPortAvailable(pe, port) = 1 THEN port
    ELSE FindAvailablePort(pe, SegmentEnd(pe, port) + 1)

(***************************************************************************)
(* State.                                                                  *)
(***************************************************************************)
VARIABLES
    pc,          \* position of the process in main()
    argv,        \* the command line after the program name
    env,         \* the process environment
    portenv,     \* the occupancy of the host's ports
    config,      \* struct launcher_config
    warned,      \* override warnings printed by parse_args
    exit_code,   \* -1 while running, else the exit status
    exit_reason, \* which exit was taken
    fs,          \* the persisted state, and what the contract answers
    fs0,         \* the persisted state when the process started
    writes,      \* the files and directories this run created or wrote
    loc,         \* the local variables of main()
    new_argv,    \* the argument vector handed to mysqld
    starts,      \* how many times the launcher has been started on fs
    twin,        \* the start of this process, and what a dry run from it left
    peer         \* the other launcher process on this storage, while it is not running

vars == <<pc, argv, env, portenv, config, warned, exit_code, exit_reason,
          fs, fs0, writes, loc, new_argv, starts, twin, peer>>

WHITELIST_NUM_LINES == 5
MAX_VALUES_PER_LINE == 256
MAX_VALUE_LEN == 128

\* struct whitelist_csv after "= {0}" or the empty branch of parse_whitelist
EmptyCsv == [i \in 1..WHITELIST_NUM_LINES |-> <<>>]

InitLocals ==
    [mysql_requested |-> 0, mysql_probe |-> 1, mysql_scan |-> <<>>,
     gr_requested |-> 0, gr_probe |-> 1, gr_scan |-> <<>>,
     io_failures |-> 0, contract_whitelist |-> NULL,
     env_csv |-> EmptyCsv, contract_csv |-> EmptyCsv,
     first_boot |-> 0, gr_group_name |-> NULL, group_source |-> "",
     gr_enabled |-> 0, lan_ip |-> <<>>, server_id |-> <<0, 0>>, seeds_list |-> <<>>,
     gr_local_address |-> <<>>, init_sql_created |-> 0, new_argc |-> 0,
     ratls_lib |-> 0]

\* another I/O operation of this run may fail
MayFail == loc.io_failures < MaxIoFailures

\* exit(status) / return status from main
Exit(status, reason) ==
    /\ pc' = "exited"
    /\ exit_code' = status
    /\ exit_reason' = reason

(***************************************************************************)
(* main(): parse_args and validate_config.                                 *)
(***************************************************************************)
DoParseArgs ==
    /\ pc = "start"
    /\ LET r == ParseArgs(argv, env) IN
       /\ config' = r.cfg
       /\ warned' = r.warned
       /\ IF r.exit = 0 THEN Exit(0, "help")
          ELSE IF r.exit = 1 THEN Exit(1, "invalid_port")
          ELSE IF ValidateConfig(r.cfg) # 0 THEN Exit(1, "validate_config")
          ELSE /\ pc' = "parsed"
               /\ UNCHANGED <<exit_code, exit_reason>>
    /\ UNCHANGED <<starts, peer, twin, argv, env, portenv, fs, fs0, writes, loc, new_argv>>

\* variant: an occupied port is scanned past whether pinned or not
NegotiatePortAlwaysScans(pe, requested, specified) ==
    LET a == IsPortAvailable(pe, requested) IN
    IF a = 0
    THEN LET new_port == FindAvailablePort(pe, requested + 1) IN
         IF new_port < 0
         THEN [fatal |-> "exhausted", port |-> requested, probe |-> a,
               scan |-> <<requested + 1, MAX_PORT>>]
         ELSE [fatal |-> "", port |-> new_port, probe |-> a,
               scan |-> <<requested + 1, new_port>>]
    ELSE [fatal |-> "", port |-> requested, probe |-> a, scan |-> <<>>]

\* variant: an inconclusive first probe counts as occupied
NegotiatePortErrorIsOccupied(pe, requested, specified) ==
    LET a == IsPortAvailable(pe, requested) IN
    IF a # 1
    THEN IF specified = 1
         THEN [fatal |-> "in_use", port |-> requested, probe |-> a, scan |-> <<>>]
         ELSE LET new_port == FindAvailablePort(pe, requested + 1) IN
              IF new_port < 0
              THEN [fatal |-> "exhausted", port |-> requested, probe |-> a,
                    scan |-> <<requested + 1, MAX_PORT>>]
              ELSE [fatal |-> "", port |-> new_port, probe |-> a,
                    scan |-> <<requested + 1, new_port>>]
    ELSE [fatal |-> "", port |-> requested, probe |-> a, scan |-> <<>>]

(***************************************************************************)
(* main(): "Check port availability and handle conflicts".                 *)
(***************************************************************************)
\* the outcome of checking one port: requested port, whether it was given
\* explicitly -> [fatal, port, probe, scan]
NegotiatePort(pe, requested, specified) ==
    LET a == IsPortAvailable(pe, requested) IN
    IF a = 0
    THEN IF specified = 1
         THEN [fatal |-> "in_use", port |-> requested, probe |-> a, scan |-> <<>>]
         ELSE LET new_port == FindAvailablePort(pe, requested + 1) IN
              IF new_port < 0
              THEN [fatal |-> "exhausted", port |-> requested, probe |-> a,
                    scan |-> <<requested + 1, MAX_PORT>>]
              ELSE [fatal |-> "", port |-> new_port, probe |-> a,
                    scan |-> <<requested + 1, new_port>>]
    ELSE [fatal |-> "", port |-> requested, probe |-> a, scan |-> <<>>]

CheckMysqlPort ==
    /\ pc = "parsed"
    /\ LET mysql_port_to_check ==
               IF config.mysql_port > 0 THEN config.mysql_port
               ELSE MYSQL_DEFAULT_PORT
           n == NegotiatePort(portenv, mysql_port_to_check,
                              config.mysql_port_specified)
       IN
       /\ loc' = [loc EXCEPT !.mysql_requested = mysql_port_to_check,
                             !.mysql_probe = n.probe, !.mysql_scan = n.scan]
       /\ IF n.fatal = "in_use"
          THEN Exit(1, "mysql_port_in_use") /\ UNCHANGED config
          ELSE IF n.fatal = "exhausted"
          THEN Exit(1, "mysql_port_exhausted") /\ UNCHANGED config
          ELSE /\ config' = [config EXCEPT !.mysql_port = n.port]
               /\ pc' = "mysql_port_checked"
               /\ UNCHANGED <<exit_code, exit_reason>>
    /\ UNCHANGED <<starts, peer, twin, argv, env, portenv, warned, fs, fs0, writes, new_argv>>

CheckGrPort ==
    /\ pc = "mysql_port_checked"
    /\ LET n == NegotiatePort(portenv, config.gr_port, config.gr_port_specified)
       IN
       /\ loc' = [loc EXCEPT !.gr_requested = config.gr_port,
                             !.gr_probe = n.probe, !.gr_scan = n.scan]
       /\ IF n.fatal = "in_use"
          THEN Exit(1, "gr_port_in_use") /\ UNCHANGED config
          ELSE IF n.fatal = "exhausted"
          THEN Exit(1, "gr_port_exhausted") /\ UNCHANGED config
          ELSE /\ config' = [config EXCEPT !.gr_port = n.port]
               /\ pc' = "ports_checked"
               /\ UNCHANGED <<exit_code, exit_reason>>
    /\ UNCHANGED <<starts, peer, twin, argv, env, portenv, warned, fs, fs0, writes, new_argv>>

(***************************************************************************)
(* Identity: server id and group name.                                     *)
(***************************************************************************)
\* the byte value of a character
ByteOf(c) ==
    CASE c \in Digits -> 48 + DigitVal(c)
      [] c = "." -> 46 [] c = ":" -> 58 [] c = "-" -> 45 [] c = "," -> 44
      [] c = " " -> 32
      [] c = "a" -> 97 [] c = "b" -> 98 [] c = "c" -> 99 [] c = "d" -> 100
      [] c = "e" -> 101 [] c = "f" -> 102 [] c = "g" -> 103 [] c = "h" -> 104
      [] OTHER -> 120

\* variant: the carry out of the low half is lost
HashStepNoCarry(hash, c) ==
    <<(hash[1] * 33) % 65536, (hash[2] * 33 + c) % 65536>>

\* an unsigned int is a pair <<high 16 bits, low 16 bits>>
\* hash = ((hash << 5) + hash) + c, wrapping at 2^32
HashStep(hash, c) ==
    LET lo == hash[2] * 33 + c
        hi == hash[1] * 33 + (lo \div 65536)
    IN <<hi % 65536, lo % 65536>>

RECURSIVE HashBytes(_, _, _)
HashBytes(str, i, hash) ==
    IF i > Len(str) THEN hash
    ELSE HashBytes(str, i + 1, HashStep(hash, ByteOf(str[i])))

\* (hash % 4294967294) + 1
FoldServerId(hash) ==
    IF hash[1] = 65535 /\ hash[2] >= 65534 THEN <<0, hash[2] - 65534 + 1>>
    ELSE IF hash[2] = 65535 THEN <<hash[1] + 1, 0>>
    ELSE <<hash[1], hash[2] + 1>>

\* the id get_or_create_server_id derives from the LAN IP and the GR port
DeriveServerId(lan_ip, gr_port) ==
    LET h0 == HashBytes(lan_ip, 1, <<0, 5381>>)
        h1 == HashStep(h0, gr_port % 256)
        h2 == HashStep(h1, (gr_port \div 256) % 256)
    IN FoldServerId(h2)

UUID_LEN == 36

\* variant: the buffer holds eight characters
TruncateNameShort(name) ==
    IF Len(name) > 8 THEN SubSeq(name, 1, 8) ELSE name

\* strncpy(group_name_buf, name, UUID_LEN); group_name_buf[UUID_LEN] = '\0'
TruncateName(name) ==
    IF Len(name) > UUID_LEN THEN SubSeq(name, 1, UUID_LEN) ELSE name

(***************************************************************************)
(* Seeds list.                                                             *)
(***************************************************************************)
\* snprintf("%d") of a positive number
RECURSIVE Itoa(_)
Itoa(n) ==
    LET d == CHOOSE c \in Digits : DigitVal(c) = n % 10 IN
    IF n < 10 THEN <<d>> ELSE Append(Itoa(n \div 10), d)

\* strtok_r(str, ","): the non-empty pieces between commas
RECURSIVE Tokens(_, _, _)
Tokens(str, i, cur) ==
    IF i > Len(str) THEN (IF cur = <<>> THEN <<>> ELSE <<cur>>)
    ELSE IF str[i] = ","
    THEN (IF cur = <<>> THEN <<>> ELSE <<cur>>) \o Tokens(str, i + 1, <<>>)
    ELSE Tokens(str, i + 1, Append(cur, str[i]))

RECURSIVE TrimLeft(_)
TrimLeft(t) ==
    IF Len(t) > 0 /\ t[1] = " " THEN TrimLeft(Tail(t)) ELSE t

\* "while (end > token && *end == ' ')": the first character is never cut
RECURSIVE TrimRight(_)
TrimRight(t) ==
    IF Len(t) > 1 /\ t[Len(t)] = " " THEN TrimRight(SubSeq(t, 1, Len(t) - 1))
    ELSE t

Trim(t) == TrimRight(TrimLeft(t))

HasColon(t) == \E i \in 1..Len(t) : t[i] = ":"

\* variant: no seed is ever found in the list
SeedNeverInList(seeds, seed_with_port) == FALSE

\* seed_in_list(seeds, seed_with_port)
SeedInList(seeds, seed_with_port) ==
    /\ Len(seeds) > 0
    /\ LET toks == Tokens(seeds, 1, <<>>) IN
       \E k \in 1..Len(toks) : Trim(toks[k]) = seed_with_port

RECURSIVE AddSeeds(_, _, _, _)
AddSeeds(toks, k, seeds_buf, gr_port) ==
    IF k > Len(toks) THEN seeds_buf
    ELSE LET token == Trim(toks[k])
             seed_with_port ==
                 IF HasColon(token) THEN token
                 ELSE token \o <<":">> \o Itoa(gr_port)
         IN IF Len(token) = 0 \/ SeedInList(seeds_buf, seed_with_port)
            THEN AddSeeds(toks, k + 1, seeds_buf, gr_port)
            ELSE AddSeeds(toks, k + 1,
                          (IF Len(seeds_buf) > 0 THEN seeds_buf \o <<",">>
                           ELSE seeds_buf) \o seed_with_port,
                          gr_port)

\* build_seeds_list(seeds_buf, size, extra_seeds, gr_port)
BuildSeedsList(extra_seeds, gr_port) ==
    IF NonEmpty(extra_seeds)
    THEN AddSeeds(Tokens(extra_seeds, 1, <<>>), 1, <<>>, gr_port)
    ELSE <<>>

(***************************************************************************)
(* Persisted state.  fs.dirs: the directories that exist; fs.data[d]: the  *)
(* content of data directory d (ibdata1 present, the instance-unique files *)
(* present, the sentinel, the start-up script and its statements, how much *)
(* of the template's tree was copied); fs.template: the state of the       *)
(* template directory; the identity files hold 0 / NULL when absent.       *)
(***************************************************************************)
unique_files ==
    {"auto.cnf", "ca-key.pem", "ca.pem", "server-cert.pem", "server-key.pem",
     "client-cert.pem", "client-key.pem", "private_key.pem", "public_key.pem"}

\* a data directory nothing was copied to; copied tells how much of the
\* template's tree is there: "none", "partial" or "full"
EmptyDataDir ==
    [ibdata |-> FALSE, unique |-> {}, sentinel |-> FALSE, init_sql |-> "",
     statements |-> <<>>, copied |-> "none"]

\* the entry of `writes` for a file written by this run
Wrote(name) == <<"write", <<"file", <<name>> >> >>

\* the entry of `writes` for the unlink calls of this run
Unlinked(name) == <<"unlink", <<"file", <<name>> >> >>

\* set_env(name, value, 1)
SetEnv(environ, name, value) ==
    [e \in DOMAIN environ \cup {name} |->
        IF e = name THEN value ELSE environ[e]]

\* getenv(name) on an environment that may not mention the name
GetEnv(environ, name) ==
    IF name \in DOMAIN environ THEN environ[name] ELSE NULL

\* the RA-TLS variables main() exports from the configuration
RaTlsEnv(environ, c) ==
    LET opt(en, name, v) == IF NonEmpty(v) THEN SetEnv(en, name, v) ELSE en
        dfl(en, name, v) == SetEnv(en, name, IF NonEmpty(v) THEN v ELSE <<"1">>)
        e1 == opt(environ, "RA_TLS_CERT_ALGORITHM", c.ra_tls_cert_algorithm)
        e2 == dfl(e1, "RA_TLS_ENABLE_VERIFY", c.ratls_enable_verify)
        e3 == dfl(e2, "RA_TLS_REQUIRE_PEER_CERT", c.ratls_require_peer_cert)
        e4 == opt(e3, "RA_TLS_ALLOW_OUTDATED_TCB_INSECURE", c.ra_tls_allow_outdated_tcb)
        e5 == opt(e4, "RA_TLS_ALLOW_HW_CONFIG_NEEDED", c.ra_tls_allow_hw_config_needed)
        e6 == opt(e5, "RA_TLS_ALLOW_SW_HARDENING_NEEDED", c.ra_tls_allow_sw_hardening_needed)
        e7 == SetEnv(e6, "RA_TLS_CERT_PATH", c.cert_path)
    IN SetEnv(e7, "RA_TLS_KEY_PATH", c.key_path)

\* the directories main() creates with mkdir_p
LauncherDirs(c) ==
    {<<"dirname", c.cert_path>>, <<"dirname", c.key_path>>,
     <<"dir", c.data_dir>>,
     <<"dir", <<"/var/log/mysql">> >>, <<"dir", <<"/var/lib/mysql">> >>,
     <<"dir", <<"/var/run/mysqld">> >>, <<"dir", <<"/var/lib/mysql-files">> >>}

\* the directories whose creation is let fail
MkdirFailures(c) == {<<"dir", c.data_dir>>, <<"dir", <<"/var/lib/mysql">> >>}

\* the instance-unique files whose removal is let fail
UnlinkFailures == {"auto.cnf", "server-key.pem"}

(***************************************************************************)
(* main(): RA-TLS environment and directories.                             *)
(***************************************************************************)
SetupDirs ==
    /\ pc = "ports_checked"
    /\ env' = RaTlsEnv(env, config)
    /\ \E failed \in SUBSET ((LauncherDirs(config) \ fs.dirs) \cap MkdirFailures(config)) :
          /\ Cardinality(failed) <= MaxIoFailures - loc.io_failures
          /\ LET created == (LauncherDirs(config) \ fs.dirs) \ failed IN
             /\ fs' = [fs EXCEPT !.dirs = @ \cup created]
             /\ writes' = writes \cup {<<"mkdir", d>> : d \in created}
          /\ loc' = [loc EXCEPT !.io_failures = @ + Cardinality(failed)]
    /\ pc' = "dirs_done"
    /\ UNCHANGED <<starts, peer, twin, argv, portenv, config, warned, exit_code, exit_reason,
                   fs0, new_argv>>

(***************************************************************************)
(* main(): needs_mysql_init / copy_mysql_template_data.                    *)
(***************************************************************************)
\* variant: every start asks for the template
NeedsMysqlInitAlways(f, d) ==
    TRUE

\* needs_mysql_init(data_dir)
NeedsMysqlInit(f, d) == ~f.data[d].ibdata

\* variant: a template directory that is there is taken as it is
TemplateUsableIfThere(f) ==
    f.template # "missing"

\* copy_mysql_template_data: the template directory is there and has
\* ibdata1 (fs.template is "ok", "missing" or "unmarked")
TemplateUsable(f) == f.template = "ok"

InitDataDir ==
    /\ pc = "dirs_done"
    /\ LET d == config.data_dir IN
       IF ~NeedsMysqlInit(fs, d)
       THEN /\ pc' = "data_ready"
            /\ UNCHANGED <<fs, writes, loc, exit_code, exit_reason>>
       ELSE IF ~TemplateUsable(fs)
       THEN /\ Exit(1, "template")
            /\ UNCHANGED <<fs, writes, loc>>
       ELSE \/ \* copy_tree succeeds, every instance-unique file is removed
               /\ fs' = [fs EXCEPT !.dirs = @ \cup {<<"dir", d>>},
                                   !.data[d].ibdata = TRUE,
                                   !.data[d].unique = {},
                                   !.data[d].copied = "full"]
               /\ writes' = writes \cup {Wrote("datadir"), Unlinked("unique_files")}
               /\ pc' = "data_ready"
               /\ UNCHANGED <<loc, exit_code, exit_reason>>
            \/ \* copy_tree succeeds, one unlink fails (a warning)
               /\ MayFail
               /\ \E u \in unique_files \cap UnlinkFailures :
                     fs' = [fs EXCEPT !.dirs = @ \cup {<<"dir", d>>},
                                      !.data[d].ibdata = TRUE,
                                      !.data[d].unique = {u},
                                      !.data[d].copied = "full"]
               /\ writes' = writes \cup {Wrote("datadir"), Unlinked("unique_files")}
               /\ loc' = [loc EXCEPT !.io_failures = @ + 1]
               /\ pc' = "data_ready"
               /\ UNCHANGED <<exit_code, exit_reason>>
            \/ \* copy_tree fails part-way
               /\ MayFail
               /\ \E ib \in BOOLEAN, un \in {{}, unique_files} :
                     /\ fs' = [fs EXCEPT !.data[d].ibdata = ib,
                                         !.data[d].unique = @ \cup un,
                                         !.data[d].copied =
                                             IF ib \/ un # {} THEN "partial" ELSE @]
                     /\ writes' = IF ib \/ un # {} THEN writes \cup {Wrote("datadir")}
                                  ELSE writes
               /\ loc' = [loc EXCEPT !.io_failures = @ + 1]
               /\ Exit(1, "template")
    /\ UNCHANGED <<starts, peer, twin, argv, env, portenv, config, warned, fs0, new_argv>>

(***************************************************************************)
(* main(): "Handle whitelist configuration".                               *)
(***************************************************************************)
\* base64_encode_table
Base64Table ==
    <<"A", "B", "C", "D", "E", "F", "G", "H", "I", "J", "K", "L", "M", "N", "O", "P",
      "Q", "R", "S", "T", "U", "V", "W", "X", "Y", "Z", "a", "b", "c", "d", "e", "f",
      "g", "h", "i", "j", "k", "l", "m", "n", "o", "p", "q", "r", "s", "t", "u", "v",
      "w", "x", "y", "z", "0", "1", "2", "3", "4", "5", "6", "7", "8", "9", "+", "/">>

Base64Chars == {Base64Table[k] : k \in 1..64}

\* base64_decode_table, for the characters of the alphabet
Base64DecodeTable ==
    [c \in Base64Chars |-> (CHOOSE k \in 1..64 : Base64Table[k] = c) - 1]

\* base64_decode_table[c]: 255 for a character outside the alphabet
Base64Val(c) == IF c \in Base64Chars THEN Base64DecodeTable[c] ELSE 255

\* the characters a decoded whitelist is made of, and the one standing for
\* every other byte
WhitelistChars == Digits \cup {"a", "b", "c", "d", "e", "f", "g", "h",
                               ".", ":", "-", ",", " ", "\n", "\r", "\t"}

WhitelistByte(c) ==
    CASE c = "\n" -> 10 [] c = "\r" -> 13 [] c = "\t" -> 9 [] OTHER -> ByteOf(c)

WhitelistCharTable ==
    [b \in 0..255 |->
       IF \E c \in WhitelistChars : WhitelistByte(c) = b
       THEN CHOOSE c \in WhitelistChars : WhitelistByte(c) = b
       ELSE "x"]

WhitelistChar(b) == WhitelistCharTable[b]

\* the value base64_decode returns for an invalid character
DecodeError == <<-1>>

\* base64_decode: the loop from input[i], with the accumulator buf (of which
\* only the low 14 bits are ever read), its bit count and the bytes so far
RECURSIVE Base64DecodeFrom(_, _, _, _, _)
Base64DecodeFrom(input, i, buf, bits, output) ==
    IF i > Len(input) THEN output
    ELSE IF input[i] \in {"=", "\n", "\r", " "}
    THEN Base64DecodeFrom(input, i + 1, buf, bits, output)
    ELSE IF Base64Val(input[i]) = 255 THEN DecodeError
    ELSE LET b == (buf * 64 + Base64Val(input[i])) % 65536
             n == bits + 6
         IN IF n >= 8
            THEN Base64DecodeFrom(input, i + 1, b, n - 8,
                                  Append(output, (b \div (2 ^ (n - 8))) % 256))
            ELSE Base64DecodeFrom(input, i + 1, b, n, output)

Base64Decode(input) == Base64DecodeFrom(input, 1, 0, 0, <<>>)

\* base64_encode: the loop from input[i] (i counts from 0 as in the code);
\* i never passes input_len, so neither padding test is ever true
RECURSIVE Base64EncodeFrom(_, _)
Base64EncodeFrom(input, i) ==
    IF i >= Len(input) THEN <<>>
    ELSE LET input_len == Len(input)
             octet_a == input[i + 1]
             i1 == i + 1
             octet_b == IF i1 < input_len THEN input[i1 + 1] ELSE 0
             i2 == IF i1 < input_len THEN i1 + 1 ELSE i1
             octet_c == IF i2 < input_len THEN input[i2 + 1] ELSE 0
             i3 == IF i2 < input_len THEN i2 + 1 ELSE i2
             triple == octet_a * 65536 + octet_b * 256 + octet_c
         IN <<Base64Table[((triple \div 262144) % 64) + 1],
              Base64Table[((triple \div 4096) % 64) + 1],
              IF i3 > input_len + 1 THEN "="
              ELSE Base64Table[((triple \div 64) % 64) + 1],
              IF i3 > input_len THEN "=" ELSE Base64Table[(triple % 64) + 1]>>
            \o Base64EncodeFrom(input, i3)

Base64Encode(input) == Base64EncodeFrom(input, 0)

\* the C string held in a buffer: the bytes before the first NUL
RECURSIVE CString(_)
CString(bytes) ==
    IF bytes = <<>> \/ bytes[1] = 0 THEN <<>>
    ELSE <<bytes[1]>> \o CString(Tail(bytes))

\* the least number of a set
FirstOf(S) == CHOOSE k \in S : \A j \in S : k <= j

\* the cell standing for "no restriction"
ZeroValue == <<"0">>

WhitelistBlank == {" ", "\t"}

\* parse_csv_line: the loop from line[start], with the values so far
RECURSIVE ParseCsvFrom(_, _, _)
ParseCsvFrom(line, start, values) ==
    IF start > Len(line) \/ Len(values) >= MAX_VALUES_PER_LINE THEN values
    ELSE LET blanks == {k \in start..Len(line) :
                          \A j \in start..k : line[j] \in WhitelistBlank}
             s == start + Cardinality(blanks)
             commas == {k \in s..Len(line) : line[k] = ","}
             end == IF commas = {} THEN Len(line) + 1 ELSE FirstOf(commas)
             kept == {k \in s..(end - 1) :
                        \E j \in k..(end - 1) : line[j] \notin WhitelistBlank}
             len == Cardinality(kept)
             added == IF len > 0 /\ len < MAX_VALUE_LEN
                      THEN Append(values, SubSeq(line, s, s + len - 1))
                      ELSE values
         IN IF end <= Len(line) THEN ParseCsvFrom(line, end + 1, added)
            ELSE added

\* parse_csv_line
ParseCsvLine(line) ==
    IF line = <<>> \/ line = ZeroValue THEN <<ZeroValue>>
    ELSE LET values == ParseCsvFrom(line, 1, <<>>)
         IN IF values = <<>> THEN <<ZeroValue>> ELSE values

\* strsep(&str, "\n") until NULL: the pieces between the newlines
RECURSIVE SplitLines(_)
SplitLines(str) ==
    IF \A k \in 1..Len(str) : str[k] # "\n" THEN <<str>>
    ELSE LET nl == FirstOf({k \in 1..Len(str) : str[k] = "\n"})
         IN <<SubSeq(str, 1, nl - 1)>> \o SplitLines(SubSeq(str, nl + 1, Len(str)))

\* "Remove carriage return if present"
StripCr(line) ==
    IF line # <<>> /\ line[Len(line)] = "\r" THEN SubSeq(line, 1, Len(line) - 1) ELSE line

\* variant: a string that does not decode is read as the empty text, whose
\* first line parse_csv_line turns into the single value "0"
ParseWhitelistAsBlank(base64_str, csv) ==
    IF base64_str = NULL \/ base64_str = <<>>
    THEN [rc |-> 0, csv |-> EmptyCsv]
    ELSE LET decoded == Base64Decode(base64_str)
             bytes == IF decoded = DecodeError THEN <<>> ELSE CString(decoded)
             str == [k \in 1..Len(bytes) |-> WhitelistChar(bytes[k])]
             lines == SplitLines(str)
         IN [rc |-> IF decoded = DecodeError THEN -1 ELSE 0,
             csv |-> [i \in 1..WHITELIST_NUM_LINES |->
                        IF i <= Len(lines) THEN ParseCsvLine(StripCr(lines[i]))
                        ELSE <<>>]]

\* parse_whitelist(base64_str, csv): the return code and what csv holds after
ParseWhitelist(base64_str, csv) ==
    IF base64_str = NULL \/ base64_str = <<>>
    THEN [rc |-> 0, csv |-> EmptyCsv]
    ELSE LET decoded == Base64Decode(base64_str)
         IN IF decoded = DecodeError THEN [rc |-> -1, csv |-> csv]
            ELSE LET bytes == CString(decoded)
                     str == [k \in 1..Len(bytes) |-> WhitelistChar(bytes[k])]
                     lines == SplitLines(str)
                 IN [rc |-> 0,
                     csv |-> [i \in 1..WHITELIST_NUM_LINES |->
                                IF i <= Len(lines) THEN ParseCsvLine(StripCr(lines[i]))
                                ELSE <<>>]]

\* the number of rules of a table: the count of its longest line
MaxCount(csv) ==
    LET counts == {Len(csv[i]) : i \in 1..WHITELIST_NUM_LINES}
    IN CHOOSE n \in counts : \A k \in counts : k <= n

\* the rule at rule_idx (from 0): a short line contributes "0"
RuleAt(csv, rule_idx) ==
    [i \in 1..WHITELIST_NUM_LINES |->
       IF rule_idx < Len(csv[i]) THEN csv[i][rule_idx + 1] ELSE ZeroValue]

\* rule_exists
RuleExists(csv, values) ==
    \E rule_idx \in 0..(MaxCount(csv) - 1) : RuleAt(csv, rule_idx) = values

\* "Add rule to dest": every line takes its cell at its own count
AddRule(dest, rule_values) ==
    [i \in 1..WHITELIST_NUM_LINES |->
       IF Len(dest[i]) < MAX_VALUES_PER_LINE
       THEN Append(dest[i], SubSeq(rule_values[i], 1,
                                   FirstOf({Len(rule_values[i]), MAX_VALUE_LEN - 1})))
       ELSE dest[i]]

\* merge_whitelists: the loop from rule_idx
RECURSIVE MergeWhitelistsFrom(_, _, _)
MergeWhitelistsFrom(dest, src, rule_idx) ==
    IF rule_idx >= MaxCount(src) THEN dest
    ELSE LET rule_values == RuleAt(src, rule_idx)
         IN MergeWhitelistsFrom(IF ~RuleExists(dest, rule_values)
                                THEN AddRule(dest, rule_values) ELSE dest,
                                src, rule_idx + 1)

MergeWhitelists(dest, src) == MergeWhitelistsFrom(dest, src, 0)

\* the values of one line from val_idx on, a comma before all but the first
RECURSIVE JoinValues(_, _)
JoinValues(values, val_idx) ==
    IF val_idx > Len(values) THEN <<>>
    ELSE (IF val_idx > 1 THEN <<",">> ELSE <<>>) \o values[val_idx]
         \o JoinValues(values, val_idx + 1)

\* the text serialize_whitelist builds: every line's values joined by
\* commas, each line ended by a newline
RECURSIVE CsvText(_, _)
CsvText(csv, line_idx) ==
    IF line_idx > WHITELIST_NUM_LINES THEN <<>>
    ELSE JoinValues(csv[line_idx], 1) \o <<"\n">> \o CsvText(csv, line_idx + 1)

\* serialize_whitelist
SerializeWhitelist(csv) ==
    LET csv_str == CsvText(csv, 1)
    IN Base64Encode([k \in 1..Len(csv_str) |-> WhitelistByte(csv_str[k])])

\* merge_whitelist_configs, up to the merge: the tables env_csv and
\* contract_csv
MergedCsv(env_whitelist, contract_whitelist) ==
    LET env_csv == IF NonEmpty(env_whitelist)
                   THEN ParseWhitelist(env_whitelist, EmptyCsv).csv ELSE EmptyCsv
        contract_csv == IF NonEmpty(contract_whitelist)
                        THEN ParseWhitelist(contract_whitelist, EmptyCsv).csv
                        ELSE EmptyCsv
    IN [env_csv |-> MergeWhitelists(env_csv, contract_csv),
        contract_csv |-> contract_csv]

\* what the contract answers when it is read
ContractWhitelists == {fs.contract}

\* what merge_whitelist_configs returns once env_csv holds the merged
\* table: NULL when an allocation fails, else the encoded table
MergeOutcomes(env_csv) == {NULL, SerializeWhitelist(env_csv)}

Whitelist ==
    /\ pc = "data_ready"
    /\ LET env_whitelist == config.whitelist_config
           configured == NonEmpty(config.contract_address) /\ NonEmpty(config.rpc_url)
       IN
       \E cw \in (IF configured THEN {NULL} \cup ContractWhitelists ELSE {NULL}) :
          /\ IF NonEmpty(env_whitelist) /\ NonEmpty(cw)
             THEN /\ loc' = [loc EXCEPT
                               !.contract_whitelist = cw,
                               !.env_csv = MergedCsv(env_whitelist, cw).env_csv,
                               !.contract_csv = MergedCsv(env_whitelist, cw).contract_csv]
                  /\ \E merged \in MergeOutcomes(loc'.env_csv) :
                        env' = IF merged # NULL
                               THEN SetEnv(env, "RA_TLS_WHITELIST_CONFIG", merged)
                               ELSE env
             ELSE /\ loc' = [loc EXCEPT !.contract_whitelist = cw]
                  /\ env' = IF NonEmpty(cw)
                            THEN SetEnv(env, "RA_TLS_WHITELIST_CONFIG", cw)
                            ELSE env
    /\ pc' = "whitelist_done"
    /\ UNCHANGED <<starts, peer, twin, argv, portenv, config, warned, exit_code, exit_reason,
                   fs, fs0, writes, new_argv>>

(***************************************************************************)
(* main(): first-boot detection, group name, join-mode check.              *)
(***************************************************************************)
\* is_mysql_initialized(data_dir)
IsMysqlInitialized(f, d) == f.data[d].sentinel

\* "%02x" of one byte
HexDigit(n) ==
    CASE n < 10 -> CHOOSE c \in Digits : DigitVal(c) = n
      [] n = 10 -> "a" [] n = 11 -> "b" [] n = 12 -> "c"
      [] n = 13 -> "d" [] n = 14 -> "e" [] n = 15 -> "f"

Hex2(b) == <<HexDigit(b \div 16), HexDigit(b % 16)>>

RECURSIVE HexOf(_, _, _)
HexOf(bytes, i, j) ==
    IF i > j THEN <<>> ELSE Hex2(bytes[i]) \o HexOf(bytes, i + 1, j)

\* variant: the random bytes are formatted as they were read
GenerateUuidRaw(rb) ==
    HexOf(rb, 1, 4) \o <<"-">> \o HexOf(rb, 5, 6) \o <<"-">> \o HexOf(rb, 7, 8)
    \o <<"-">> \o HexOf(rb, 9, 10) \o <<"-">> \o HexOf(rb, 11, 16)

\* variant: the buffer is too small for a UUID, the name is left empty
GenerateUuidBufferTooSmall(rb) == <<>>

\* generate_uuid(uuid_buf, buf_size) on the 16 bytes read from /dev/urandom
\* (random_bytes[k] is rb[k + 1])
GenerateUuid(rb) ==
    LET random_bytes ==
            [rb EXCEPT ![7] = (rb[7] % 16) + 64,    \* (b & 0x0F) | 0x40
                       ![9] = (rb[9] % 64) + 128]   \* (b & 0x3F) | 0x80
    IN HexOf(random_bytes, 1, 4) \o <<"-">> \o HexOf(random_bytes, 5, 6)
       \o <<"-">> \o HexOf(random_bytes, 7, 8) \o <<"-">>
       \o HexOf(random_bytes, 9, 10) \o <<"-">> \o HexOf(random_bytes, 11, 16)

\* variant: the mirror is opened and closed but nothing is written
WritePlaintextNothing(f, name) == f

\* write_plaintext_group_name(name): the file after a successful write
WritePlaintext(f, name) == [f EXCEPT !.plaintext_file = name]

\* get_or_create_gr_group_name(cli_group_name, is_bootstrap): the possible
\* outcomes [name, source, fs, wrote, failures]
GroupNameOutcomes(cli_group_name, environ, f, budget) ==
    LET env_group_name == GetEnv(environ, "MYSQL_GR_GROUP_NAME")
        \* the plaintext mirror is written, or fopen fails (a warning)
        mirror(name, source, g, wrote) ==
            {[name |-> name, source |-> source, fs |-> WritePlaintext(g, name),
              wrote |-> wrote \cup {"plaintext_file"}, failures |-> 0]}
            \cup (IF budget > 0
                  THEN {[name |-> name, source |-> source, fs |-> g,
                         wrote |-> wrote, failures |-> 1]}
                  ELSE {})
    IN
    IF NonEmpty(cli_group_name)
    THEN mirror(TruncateName(cli_group_name), "cli", f, {})
    ELSE IF NonEmpty(env_group_name)
    THEN LET name == TruncateName(env_group_name) IN
         mirror(name, "env", [f EXCEPT !.group_name_file = name],
                {"group_name_file"})
         \cup (IF budget > 0
               THEN {[name |-> name, source |-> "env",
                      fs |-> WritePlaintext(f, name),
                      wrote |-> {"plaintext_file"}, failures |-> 1]}
               ELSE {})
    ELSE IF NonEmpty(f.group_name_file)
    THEN mirror(TruncateName(f.group_name_file), "file", f, {})
    ELSE LET name == GenerateUuid(f.urandom) IN
         mirror(name, "generated", [f EXCEPT !.group_name_file = name],
                {"group_name_file"})
         \cup (IF budget > 0
               THEN {[name |-> name, source |-> "generated",
                      fs |-> WritePlaintext(f, name),
                      wrote |-> {"plaintext_file"}, failures |-> 1]}
               ELSE {})

\* the storage after the writes of outcome o, made on storage f
AfterGroupNameWrites(f, o) ==
    [f EXCEPT !.group_name_file =
                  IF "group_name_file" \in o.wrote THEN o.fs.group_name_file ELSE @,
              !.plaintext_file =
                  IF "plaintext_file" \in o.wrote THEN o.fs.plaintext_file ELSE @]

\* main() from get_or_create_gr_group_name to the join-mode check, the
\* process being at position `at` and having read `persisted` from the
\* group-name file
ResolveGroupNameFrom(at, persisted) ==
    /\ pc = at
    /\ \E o \in GroupNameOutcomes(config.gr_group_name, env,
                                  [fs EXCEPT !.group_name_file = persisted],
                                  MaxIoFailures - loc.io_failures) :
          LET gr_enabled == IF NonEmpty(o.name) THEN 1 ELSE 0 IN
          /\ fs' = AfterGroupNameWrites(fs, o)
          /\ writes' = writes \cup {Wrote(w) : w \in o.wrote}
          /\ loc' = [loc EXCEPT
                       !.first_boot =
                           IF IsMysqlInitialized(fs, config.data_dir) THEN 0 ELSE 1,
                       !.gr_group_name = o.name,
                       !.group_source = o.source,
                       !.gr_enabled = gr_enabled,
                       !.io_failures = @ + o.failures]
          /\ IF /\ gr_enabled = 1
                /\ config.gr_bootstrap = 0
                /\ ~NonEmpty(config.gr_seeds)
             THEN Exit(1, "join_needs_seeds")
             ELSE /\ pc' = "group_resolved"
                  /\ UNCHANGED <<exit_code, exit_reason>>
    /\ UNCHANGED <<starts, twin, peer, argv, env, portenv, config, warned, fs0, new_argv>>

\* the call as one step of a process that runs alone
ResolveGroupName == ResolveGroupNameFrom("whitelist_done", fs.group_name_file)

\* the same call in two steps, for processes that run side by side: fgets
\* copies the group-name file into group_name_buf (nothing when the file is
\* absent or empty) ...
ReadGroupNameFile ==
    /\ pc = "whitelist_done"
    /\ pc' = "name_file_read"
    /\ loc' = [loc EXCEPT !.gr_group_name = fs.group_name_file]
    /\ UNCHANGED <<starts, twin, peer, argv, env, portenv, config, warned, exit_code,
                   exit_reason, fs, fs0, writes, new_argv>>

\* ... and the function goes on from what it read
UseGroupNameRead == ResolveGroupNameFrom("name_file_read", loc.gr_group_name)

(***************************************************************************)
(* main(): LAN IP, server id, seeds list, local address.                   *)
(***************************************************************************)
\* addresses get_lan_ip may detect; <<>> when detection fails
DetectedLanIps == {<<"1", "0", ".", "1">>}

\* variant: the id file is never read back
ServerIdNeverFromFile(f) == FALSE

\* get_or_create_server_id(lan_ip, gr_port): the id and whether the id
\* file is (re)written
ServerIdFromFile(f) == f.server_id_file # <<0, 0>>

\* variant: only the detected address is used for the local address
GrLocalAddressDetectedOnly(c, lan_ip) ==
    IF Len(lan_ip) > 0
    THEN lan_ip \o <<":">> \o Itoa(c.gr_port)
    ELSE <<>>

\* variant: the local address carries the default coordination port
GrLocalAddressDefaultPort(c, lan_ip) ==
    IF NonEmpty(c.gr_local_address)
    THEN c.gr_local_address \o <<":">> \o Itoa(GR_DEFAULT_PORT)
    ELSE IF Len(lan_ip) > 0
    THEN lan_ip \o <<":">> \o Itoa(GR_DEFAULT_PORT)
    ELSE <<>>

\* the "host:port" main() builds for group_replication_local_address;
\* <<>> when neither --gr-local-address nor a LAN IP is there
GrLocalAddress(c, lan_ip) ==
    IF NonEmpty(c.gr_local_address)
    THEN c.gr_local_address \o <<":">> \o Itoa(c.gr_port)
    ELSE IF Len(lan_ip) > 0
    THEN lan_ip \o <<":">> \o Itoa(c.gr_port)
    ELSE <<>>

IdentityAndSeeds ==
    /\ pc = "group_resolved"
    /\ IF loc.gr_enabled = 0
       THEN /\ pc' = "gr_config_done"
            /\ UNCHANGED <<fs, writes, loc, exit_code, exit_reason>>
       ELSE
       \E detected \in DetectedLanIps \cup {<<>>}, saved \in BOOLEAN :
          LET lan_ip == IF NonEmpty(config.test_lan_ip) THEN config.test_lan_ip
                        ELSE detected
              server_id == IF ServerIdFromFile(fs) THEN fs.server_id_file
                           ELSE DeriveServerId(lan_ip, config.gr_port)
              seeds_list == BuildSeedsList(config.gr_seeds, config.gr_port)
              gr_local_address == GrLocalAddress(config, lan_ip)
          IN
          /\ NonEmpty(config.test_lan_ip) => detected = <<>>
          /\ (ServerIdFromFile(fs) \/ ~MayFail) => saved
          /\ IF ServerIdFromFile(fs) \/ ~saved
             THEN UNCHANGED <<fs, writes>>
             ELSE /\ fs' = [fs EXCEPT !.server_id_file = server_id]
                  /\ writes' = writes \cup {Wrote("server_id_file")}
          /\ loc' = [loc EXCEPT !.lan_ip = lan_ip, !.server_id = server_id,
                                !.seeds_list = seeds_list,
                                !.gr_local_address = gr_local_address,
                                !.io_failures = IF saved THEN @ ELSE @ + 1]
          /\ IF gr_local_address = <<>>
             THEN Exit(1, "no_local_address")
             ELSE /\ pc' = "identity_done"
                  /\ UNCHANGED <<exit_code, exit_reason>>
    /\ UNCHANGED <<starts, peer, twin, argv, env, portenv, config, warned, fs0, new_argv>>

(***************************************************************************)
(* main(): GR_LOCAL_IP and the replication config file.                    *)
(***************************************************************************)
\* the comma-separated list ADD_IP_IF_UNIQUE builds
GrLocalIpList(specified, lan_ip) ==
    IF NonEmpty(specified)
    THEN IF Len(lan_ip) > 0 /\ lan_ip # specified
         THEN specified \o <<",">> \o lan_ip
         ELSE specified
    ELSE lan_ip

\* variant: a bootstrap node's config starts the group when mysqld boots
GrConfigContentBootstrapping(server_id, group_name, local_address, seeds, is_bootstrap) ==
    [server_id |-> server_id, group_name |-> group_name,
     local_address |-> local_address, seeds |-> seeds,
     start_on_boot |-> IF is_bootstrap = 1 THEN "ON" ELSE "OFF",
     bootstrap_group |-> IF is_bootstrap = 1 THEN "ON" ELSE "OFF"]

\* the settings create_gr_config writes; is_bootstrap is not used
GrConfigContent(server_id, group_name, local_address, seeds, is_bootstrap) ==
    [server_id |-> server_id, group_name |-> group_name,
     local_address |-> local_address, seeds |-> seeds,
     start_on_boot |-> "OFF", bootstrap_group |-> "OFF"]

GrConfig ==
    /\ pc = "identity_done"
    /\ LET list == GrLocalIpList(config.gr_local_address, loc.lan_ip) IN
       env' = IF Len(list) > 0 THEN SetEnv(env, "GR_LOCAL_IP", list) ELSE env
    /\ \/ /\ fs' = [fs EXCEPT !.gr_config =
                       <<GrConfigContent(loc.server_id, loc.gr_group_name,
                                         loc.gr_local_address, loc.seeds_list,
                                         config.gr_bootstrap)>>]
          /\ writes' = writes \cup {Wrote("gr_config")}
          /\ pc' = "gr_config_done"
          /\ UNCHANGED <<loc, exit_code, exit_reason>>
       \/ /\ MayFail
          /\ loc' = [loc EXCEPT !.io_failures = @ + 1]
          /\ Exit(1, "gr_config")
          /\ UNCHANGED <<fs, writes>>
    /\ UNCHANGED <<starts, peer, twin, argv, portenv, config, warned, fs0, new_argv>>

(***************************************************************************)
(* main(): sentinel and start-up script.                                   *)
(***************************************************************************)
\* which script is written: create_gr_init_sql or create_init_sql
InitSqlKind(gr_enabled, is_bootstrap) ==
    IF gr_enabled = 1
    THEN (IF is_bootstrap = 1 THEN "gr_bootstrap" ELSE "gr_join")
    ELSE "plain"

\* main(): "if (first_boot) create_sentinel_file(data_dir)"; the result of
\* create_sentinel_file is not looked at
CreateSentinel ==
    /\ pc = "gr_config_done"
    /\ LET d == config.data_dir IN
       \/ /\ loc.first_boot = 0
          /\ UNCHANGED <<fs, writes, loc>>
       \/ /\ loc.first_boot = 1
          /\ fs' = [fs EXCEPT !.data[d].sentinel = TRUE]
          /\ writes' = writes \cup {Wrote("sentinel")}
          /\ UNCHANGED loc
       \/ /\ loc.first_boot = 1
          /\ MayFail
          /\ loc' = [loc EXCEPT !.io_failures = @ + 1]
          /\ UNCHANGED <<fs, writes>>
    /\ pc' = "sentinel_done"
    /\ UNCHANGED <<starts, peer, twin, argv, env, portenv, config, warned, exit_code, exit_reason,
                   fs0, new_argv>>

\* a statement of the start-up script that mysqld executes as it reads it
Statement(text) == [event |-> "", seconds |-> 0, preserve |-> FALSE, do |-> text]

\* CREATE EVENT name ON SCHEDULE AT CURRENT_TIMESTAMP + INTERVAL seconds
\* SECOND ON COMPLETION NOT PRESERVE DO body
Event(name, seconds, body) ==
    [event |-> name, seconds |-> seconds, preserve |-> FALSE, do |-> body]

START_GROUP_REPLICATION == "START GROUP_REPLICATION USER='app'"
BOOTSTRAP_GROUP_ON == "SET GLOBAL group_replication_bootstrap_group=ON"
BOOTSTRAP_GROUP_OFF == "SET GLOBAL group_replication_bootstrap_group=OFF"

\* the statements both scripts begin with: the 'app' user and its grants,
\* the root accounts dropped
UserStatements ==
    <<Statement("CREATE USER IF NOT EXISTS 'app'"), Statement("GRANT TO 'app'"),
      Statement("DROP USER IF EXISTS 'root'"), Statement("FLUSH PRIVILEGES")>>

\* create_init_sql: the statements of the script
InitSqlStatements == UserStatements

\* variant: the three bootstrap events are all scheduled 10 seconds ahead
GrInitSqlStatementsAtOnce(is_bootstrap) ==
    UserStatements \o
    (IF is_bootstrap = 1
     THEN <<Statement("DROP EVENT IF EXISTS mysql.gr_bootstrap_on"),
            Statement("DROP EVENT IF EXISTS mysql.gr_start"),
            Statement("DROP EVENT IF EXISTS mysql.gr_bootstrap_off"),
            Event("mysql.gr_bootstrap_on", 10, BOOTSTRAP_GROUP_ON),
            Event("mysql.gr_start", 10, START_GROUP_REPLICATION),
            Event("mysql.gr_bootstrap_off", 10, BOOTSTRAP_GROUP_OFF)>>
     ELSE <<Statement("DROP EVENT IF EXISTS mysql.gr_start"),
            Event("mysql.gr_start", 10, START_GROUP_REPLICATION)>>)

\* create_gr_init_sql: the statements of the script
GrInitSqlStatements(is_bootstrap) ==
    UserStatements \o
    (IF is_bootstrap = 1
     THEN <<Statement("DROP EVENT IF EXISTS mysql.gr_bootstrap_on"),
            Statement("DROP EVENT IF EXISTS mysql.gr_start"),
            Statement("DROP EVENT IF EXISTS mysql.gr_bootstrap_off"),
            Event("mysql.gr_bootstrap_on", 10, BOOTSTRAP_GROUP_ON),
            Event("mysql.gr_start", 12, START_GROUP_REPLICATION),
            Event("mysql.gr_bootstrap_off", 14, BOOTSTRAP_GROUP_OFF)>>
     ELSE <<Statement("DROP EVENT IF EXISTS mysql.gr_start"),
            Event("mysql.gr_start", 10, START_GROUP_REPLICATION)>>)

\* variant: the script file is opened for appending
ScriptAppended(old, gr_enabled, is_bootstrap) ==
    old \o (IF gr_enabled = 1 THEN GrInitSqlStatements(is_bootstrap)
            ELSE InitSqlStatements)

\* the script file after fopen(path, "w"), fprintf and fclose, `old` being
\* what it held
ScriptWritten(old, gr_enabled, is_bootstrap) ==
    IF gr_enabled = 1 THEN GrInitSqlStatements(is_bootstrap) ELSE InitSqlStatements

\* main(): create_gr_init_sql or create_init_sql; a failure is a warning
InitSql ==
    /\ pc = "sentinel_done"
    /\ LET d == config.data_dir IN
       \/ /\ fs' = [fs EXCEPT !.data[d].init_sql =
                                   InitSqlKind(loc.gr_enabled, config.gr_bootstrap),
                               !.data[d].statements =
                                   ScriptWritten(@, loc.gr_enabled, config.gr_bootstrap)]
          /\ writes' = writes \cup {Wrote("init_sql")}
          /\ loc' = [loc EXCEPT !.init_sql_created = 1]
       \/ /\ MayFail
          /\ loc' = [loc EXCEPT !.init_sql_created = 0, !.io_failures = @ + 1]
          /\ UNCHANGED <<fs, writes>>
    /\ pc' = "sql_done"
    /\ UNCHANGED <<starts, peer, twin, argv, env, portenv, config, warned, exit_code, exit_reason,
                   fs0, new_argv>>

(***************************************************************************)
(* main(): argument vector and hand-off.                                   *)
(***************************************************************************)
Arg(opt, val) == [opt |-> opt, eq |-> TRUE, val |-> val]
Word(val) == [opt |-> "", eq |-> FALSE, val |-> val]
Flag(opt) == [opt |-> opt, eq |-> FALSE, val |-> <<>>]

GR_CONFIG_FILE == <<"/var/lib/mysql/mysql-gr.cnf">>
MYSQLD_PATH == <<"/usr/sbin/mysqld">>
INIT_SQL_FILE == <<"init_users.sql">>

\* variant: the --port argument is not counted
CountArgsWithoutPort(gr_enabled, init_sql_created, mysql_port) ==
    7 + (IF gr_enabled = 1 THEN 1 ELSE 0)
      + (IF init_sql_created = 1 THEN 1 ELSE 0)

\* the number of arguments main() allocates room for
CountArgs(gr_enabled, init_sql_created, mysql_port) ==
    7 + (IF gr_enabled = 1 THEN 1 ELSE 0)
      + (IF init_sql_created = 1 THEN 1 ELSE 0)
      + (IF mysql_port > 0 THEN 1 ELSE 0)

\* variant: --init-file is passed whether or not the script was written
BuildArgvAlwaysInitFile(c, l) ==
    <<Word(MYSQLD_PATH)>>
    \o (IF l.gr_enabled = 1 THEN <<Arg("--defaults-extra-file", GR_CONFIG_FILE)>>
        ELSE <<>>)
    \o <<Arg("--datadir", c.data_dir), Arg("--ssl-cert", c.cert_path),
         Arg("--ssl-key", c.key_path),
         Arg("--require-secure-transport", <<"ON">>),
         Arg("--log-error", <<"/var/log/mysql/error.log">>),
         Flag("--console")>>
    \o <<Arg("--init-file", c.data_dir \o <<"/">> \o INIT_SQL_FILE)>>
    \o (IF c.mysql_port > 0 THEN <<Arg("--port", Itoa(c.mysql_port))>> ELSE <<>>)

\* the vector main() fills in
BuildArgv(c, l) ==
    <<Word(MYSQLD_PATH)>>
    \o (IF l.gr_enabled = 1 THEN <<Arg("--defaults-extra-file", GR_CONFIG_FILE)>>
        ELSE <<>>)
    \o <<Arg("--datadir", c.data_dir), Arg("--ssl-cert", c.cert_path),
         Arg("--ssl-key", c.key_path),
         Arg("--require-secure-transport", <<"ON">>),
         Arg("--log-error", <<"/var/log/mysql/error.log">>),
         Flag("--console")>>
    \o (IF l.init_sql_created = 1
        THEN <<Arg("--init-file", c.data_dir \o <<"/">> \o INIT_SQL_FILE)>> ELSE <<>>)
    \o (IF c.mysql_port > 0 THEN <<Arg("--port", Itoa(c.mysql_port))>> ELSE <<>>)

\* the environment main() prepares for mysqld
LaunchEnv(environ, c, ratls_lib) ==
    LET e1 == IF NonEmpty(c.gcs_debug_trace_path)
              THEN SetEnv(environ, "GCS_DEBUG_TRACE_PATH", c.gcs_debug_trace_path)
              ELSE environ
        e2 == SetEnv(e1, "LD_LIBRARY_PATH", <<"/opt/openssl-install/lib64">>)
    IN IF ratls_lib = 1
       THEN SetEnv(e2, "LD_PRELOAD", <<"libratls-quote-verify.so">>)
       ELSE e2

\* variant: --dry-run is not honoured, execv is always tried
SkipExecvNever(c) == FALSE

\* dry-run mode: main() returns 0 in place of calling execv
SkipExecv(c) == c.dry_run = 1

Launch ==
    /\ pc = "sql_done"
    /\ new_argv' = BuildArgv(config, loc)
    /\ \E ratls_lib \in {0, 1} :
          /\ env' = LaunchEnv(env, config, ratls_lib)
          /\ \/ /\ SkipExecv(config)
                /\ Exit(0, "dry_run")
                /\ loc' = [loc EXCEPT !.ratls_lib = ratls_lib,
                             !.new_argc = CountArgs(loc.gr_enabled,
                                  loc.init_sql_created, config.mysql_port)]
             \/ /\ ~SkipExecv(config)
                /\ pc' = "handoff"
                /\ UNCHANGED <<exit_code, exit_reason>>
                /\ loc' = [loc EXCEPT !.ratls_lib = ratls_lib,
                             !.new_argc = CountArgs(loc.gr_enabled,
                                  loc.init_sql_created, config.mysql_port)]
             \/ /\ ~SkipExecv(config)
                /\ MayFail
                /\ Exit(1, "execv_failed")
                /\ loc' = [loc EXCEPT !.ratls_lib = ratls_lib,
                             !.io_failures = @ + 1,
                             !.new_argc = CountArgs(loc.gr_enabled,
                                  loc.init_sql_created, config.mysql_port)]
    /\ UNCHANGED <<starts, peer, twin, argv, portenv, config, warned, fs, fs0, writes>>

(***************************************************************************)
(* Inputs.                                                                 *)
(***************************************************************************)
SeqsUpTo(S, n) == UNION {[1..k -> S] : k \in 0..n}

NoEnv == [e \in EnvNames |-> NULL]

\* sixteen bytes of /dev/urandom: byte k is (first + k * step) mod 256
RandomBytes(first, step) == [k \in 1..16 |-> (first + (k - 1) * step) % 256]

EmptyFs(dataDirs, template) ==
    [dirs |-> {}, data |-> [d \in dataDirs |-> EmptyDataDir],
     template |-> template, server_id_file |-> <<0, 0>>, group_name_file |-> NULL,
     plaintext_file |-> NULL, gr_config |-> <<>>,
     urandom |-> RandomBytes(18, 17), contract |-> <<"W">>]

Seg(lo, hi, r) == [lo |-> lo, hi |-> hi, r |-> r]

\* the state of a process that has not yet run parse_args
Started(a, e, pe, f) ==
    /\ pc = "start"
    /\ argv = a
    /\ env = e
    /\ portenv = pe
    /\ config = InitConfig
    /\ warned = {}
    /\ exit_code = -1
    /\ exit_reason = ""
    /\ fs = f
    /\ fs0 = f
    /\ writes = {}
    /\ loc = InitLocals
    /\ new_argv = <<>>
    /\ starts = 1
    /\ peer = <<>>
    /\ twin = [environ |-> e, out |-> <<>>]

(***************************************************************************)
(* Option resolution on its own: every option with its environment         *)
(* variable, short command lines over that option's tokens and a few       *)
(* tokens the launcher does not know.                                      *)
(***************************************************************************)
PortTexts ==
    {<<"8", "0">>, <<"6", "5", "5", "3", "5">>, <<"6", "5", "5", "3", "6">>,
     <<"0">>, <<"-", "5">>, <<"a">>, <<"8", "0", "a">>}

OptionOf(f) ==
    IF \E o \in DOMAIN StringOption : StringOption[o] = f
    THEN CHOOSE o \in DOMAIN StringOption : StringOption[o] = f
    ELSE IF \E o \in DOMAIN BoolOption : BoolOption[o] = f
    THEN CHOOSE o \in DOMAIN BoolOption : BoolOption[o] = f
    ELSE IF \E o \in DOMAIN PortOption : PortOption[o] = f
    THEN CHOOSE o \in DOMAIN PortOption : PortOption[o] = f
    ELSE IF f = "key_path" THEN "--key-path"
    ELSE IF f = "data_dir" THEN "--data-dir"
    ELSE "--whitelist-config"

FieldOfEnv(e) ==
    IF e \in DOMAIN StringEnv THEN StringEnv[e]
    ELSE IF e \in DOMAIN BoolEnv THEN BoolEnv[e]
    ELSE IF e \in DOMAIN PortEnv THEN PortEnv[e]
    ELSE RawEnv[e]

TokensOfEnv(e) ==
    LET o == OptionOf(FieldOfEnv(e)) IN
    IF e \in DOMAIN BoolEnv
    THEN {Flag(o), Arg(o, <<"1">>), Arg(o, <<"T", "r", "u", "e">>), Arg(o, <<"0">>)}
    ELSE IF e \in DOMAIN PortEnv
    THEN {Flag(o)} \cup {Arg(o, t) : t \in PortTexts}
    ELSE {Flag(o), Arg(o, <<"a">>), Arg(o, <<>>)}

CommonTokens ==
    {Word(<<"b">>), Word(<<"8", "1">>), Word(<<"-", "x">>), Flag("--foo"),
     Flag("--help")}

ValuesOfEnv(e) ==
    IF e \in DOMAIN BoolEnv
    THEN {NULL, <<>>, <<"1">>, <<"0">>, <<"T", "R", "U", "E">>}
    ELSE IF e \in DOMAIN PortEnv
    THEN {NULL, <<>>, <<"8", "2">>, <<"0">>, <<"a">>, <<"7", "0", "0", "0", "0">>}
    ELSE {NULL, <<>>, <<"b">>}

InitArgs ==
    \E e \in EnvNames :
      \E v \in ValuesOfEnv(e) :
        \E a \in SeqsUpTo(TokensOfEnv(e) \cup CommonTokens, MaxArgc) :
           Started(a, [NoEnv EXCEPT ![e] = v], <<>>,
                   EmptyFs({DEFAULT_DATA_DIR}, "ok"))

NextArgs == DoParseArgs

SpecArgs == InitArgs /\ [][NextArgs]_vars

(***************************************************************************)
(* Port negotiation on its own: parse_args and the two port checks, over   *)
(* pinned and default ports and many occupancy patterns around the two     *)
(* default ports.                                                          *)
(***************************************************************************)
T3306 == <<"3", "3", "0", "6">>
T3307 == <<"3", "3", "0", "7">>
T33061 == <<"3", "3", "0", "6", "1">>

MysqlSideOccupancy ==
    {<<>>,
     <<Seg(3306, 3306, 0)>>,
     <<Seg(3306, 3306, -1)>>,
     <<Seg(3306, 3306, 0), Seg(3307, 3307, -1)>>,
     <<Seg(3306, 3306, 0), Seg(3307, 3307, 0)>>,
     <<Seg(3306, 33060, 0)>>}

GrSideOccupancy ==
    {<<>>,
     <<Seg(33061, 33061, 0)>>,
     <<Seg(33061, 33061, -1)>>,
     <<Seg(33061, 33061, 0), Seg(33062, 33062, -1)>>,
     <<Seg(33061, 65535, 0)>>,
     <<Seg(33061, 33061, 0), Seg(33062, 65535, -1)>>}

PortEnvs == {m \o g : m \in MysqlSideOccupancy, g \in GrSideOccupancy}

PortTokens ==
    {Arg("--mysql-port", T3306), Arg("--mysql-port", T3307),
     Arg("--mysql-port", T33061), Arg("--gr-port", T3306),
     Arg("--gr-port", T33061), Arg("--gr-port", <<"0">>)}

PortEnvironments ==
    {NoEnv, [NoEnv EXCEPT !["GR_PORT"] = T33061],
     [NoEnv EXCEPT !["MYSQL_PORT"] = T3306],
     [NoEnv EXCEPT !["GR_PORT"] = <<"0">>]}

InitPorts ==
    \E a \in SeqsUpTo(PortTokens, MaxArgc), e \in PortEnvironments,
       pe \in PortEnvs :
       Started(a, e, pe, EmptyFs({DEFAULT_DATA_DIR}, "ok"))

NextPorts == DoParseArgs \/ CheckMysqlPort \/ CheckGrPort

SpecPorts == InitPorts /\ [][NextPorts]_vars

(***************************************************************************)
(* The whole run of main().                                                *)
(***************************************************************************)
MainTokens ==
    {Arg("--mysql-port", T33061), Arg("--mysql-port", <<"0">>),
     Arg("--gr-port", T33061), Flag("--gr-bootstrap"),
     Arg("--gr-seeds", <<"a", ",", " ", "a", ":", "1">>),
     Arg("--gr-local-address", <<"h">>), Arg("--gr-group-name", <<"c">>),
     Flag("--dry-run"), Flag("--foo")}

MainEnvironments ==
    {NoEnv,
     [NoEnv EXCEPT !["GR_PORT"] = T33061],
     [NoEnv EXCEPT !["MYSQL_GR_GROUP_NAME"] = <<"e">>],
     [NoEnv EXCEPT !["CONTRACT_ADDRESS"] = <<"0x1">>, !["RPC_URL"] = <<"u">>,
                   !["RA_TLS_WHITELIST_CONFIG"] = <<"E">>]}

MainPortEnvs ==
    {<<>>, <<Seg(3306, 33060, 0)>>, <<Seg(33061, 33061, 0)>>,
     <<Seg(3306, 33060, 0), Seg(33061, 65535, 0)>>}

MainDataDirs == {DEFAULT_DATA_DIR}

InitialFs ==
    {EmptyFs(MainDataDirs, "ok"), EmptyFs(MainDataDirs, "missing")}

Init ==
    \E a \in SeqsUpTo(MainTokens, MaxArgc), e \in MainEnvironments,
       pe \in MainPortEnvs, f \in InitialFs :
       Started(a, e, pe, f)

Next ==
    \/ DoParseArgs
    \/ CheckMysqlPort
    \/ CheckGrPort
    \/ SetupDirs
    \/ InitDataDir
    \/ Whitelist
    \/ ResolveGroupName
    \/ IdentityAndSeeds
    \/ GrConfig
    \/ CreateSentinel
    \/ InitSql
    \/ Launch

Spec == Init /\ [][Next]_vars

(***************************************************************************)
(* Restarts: the launcher is started again and again on the storage the    *)
(* previous start left behind, each time with its own command line,        *)
(* environment and random bytes.                                           *)
(***************************************************************************)
\* the command lines of the starts: join mode without seeds, bootstrap,
\* bootstrap with a group name, bootstrap on another port
RestartArgvs ==
    {<<>>, <<Flag("--gr-bootstrap")>>,
     <<Flag("--gr-bootstrap"), Arg("--gr-group-name", <<"c">>)>>,
     <<Arg("--gr-port", <<"3", "3", "0", "6", "2">>), Flag("--gr-bootstrap")>>}

RestartEnvironments ==
    {NoEnv, [NoEnv EXCEPT !["MYSQL_GR_GROUP_NAME"] = <<"e">>]}

\* /dev/urandom gives other bytes to a later start
RestartRandom == {RandomBytes(0, 0)}

\* a new process image: main() is entered again with the same environment,
\* storage is kept
Restart ==
    /\ pc \in {"exited", "handoff"}
    /\ starts < MaxStarts
    /\ starts' = starts + 1
    /\ pc' = "start"
    /\ argv' \in RestartArgvs
    /\ \E r \in RestartRandom : fs' = [fs EXCEPT !.urandom = r]
    /\ fs0' = fs'
    /\ config' = InitConfig
    /\ warned' = {}
    /\ exit_code' = -1
    /\ exit_reason' = ""
    /\ writes' = {}
    /\ loc' = InitLocals
    /\ new_argv' = <<>>
    /\ UNCHANGED <<env, portenv, twin, peer>>

InitRestarts ==
    \E a \in RestartArgvs, e \in RestartEnvironments :
       Started(a, e, <<>>, EmptyFs(MainDataDirs, "ok"))

NextRestarts == Next \/ Restart

SpecRestarts == InitRestarts /\ [][NextRestarts]_vars

(***************************************************************************)
(* Server id: starts on empty storage over a range of addresses (given by  *)
(* TEST_LAN_IP or detected) and coordination ports.                        *)
(***************************************************************************)
ServerIdAddresses ==
    {<<"1", "0", ".", "0", ".", "0", ".", "1">>,
     <<"1", "9", "2", ".", "1", "6", "8", ".", "1", ".", "1", "0", "0">>,
     <<"2", "5", "5", ".", "2", "5", "5", ".", "2", "5", "5", ".", "2", "5", "5">>,
     <<"f", "e", "8", "0", ":", ":", "1">>,
     <<"1", "0", ".", "1">>}

ServerIdPorts ==
    {<<"1">>, <<"2", "5", "5">>, <<"2", "5", "6">>, T3306, T33061,
     <<"8", "4", "4", "8">>, <<"2", "4", "6", "1", "4">>,
     <<"6", "5", "2", "8", "0">>, <<"6", "5", "5", "3", "5">>}

InitServerId ==
    \E a \in SeqsUpTo({Flag("--gr-bootstrap")}, 1),
       ip \in ServerIdAddresses \cup {NULL}, port \in ServerIdPorts :
       Started(a, [NoEnv EXCEPT !["TEST_LAN_IP"] = ip, !["GR_PORT"] = port],
               <<>>, EmptyFs(MainDataDirs, "ok"))

NextServerId == Next

SpecServerId == InitServerId /\ [][NextServerId]_vars

(***************************************************************************)
(* Group-name generation: starts on empty storage with no explicit name,   *)
(* over a range of random bytes.                                           *)
(***************************************************************************)
UuidRandom == {RandomBytes(first, step) : first \in 0..255, step \in {0, 7}}

InitUuid ==
    \E a \in SeqsUpTo({Flag("--gr-bootstrap")}, 1), r \in UuidRandom :
       Started(a, NoEnv, <<>>,
               [EmptyFs(MainDataDirs, "ok") EXCEPT !.urandom = r])

NextUuid == Next

SpecUuid == InitUuid /\ [][NextUuid]_vars

(***************************************************************************)
(* Seeds list: bootstrap starts over every short seed string (GR_SEEDS)    *)
(* with coordination port 1, and the documented example with port 33061.   *)
(***************************************************************************)
SeedSymbols == {"a", ",", " ", ":", "1"}

SeedExample ==
    <<"1", "0", ".", "0", ".", "0", ".", "1", ",",
      "1", "0", ".", "0", ".", "0", ".", "1", ":", "3", "3", "0", "6", "1">>

InitSeeds ==
    \/ \E seeds \in SeqsUpTo(SeedSymbols, MaxSeedsLen) :
          Started(<<Flag("--gr-bootstrap")>>,
                  [NoEnv EXCEPT !["GR_SEEDS"] = seeds, !["GR_PORT"] = <<"1">>],
                  <<>>, EmptyFs(MainDataDirs, "ok"))
    \/ Started(<<Flag("--gr-bootstrap")>>,
               [NoEnv EXCEPT !["GR_SEEDS"] = SeedExample],
               <<>>, EmptyFs(MainDataDirs, "ok"))

NextSeeds == Next

SpecSeeds == InitSeeds /\ [][NextSeeds]_vars

(***************************************************************************)
(* Whitelists: the manifest and the contract each contribute an encoded    *)
(* table.                                                                  *)
(***************************************************************************)
WhitelistFirstLines ==
    {<<>>, <<<<"a">>>>, <<<<"a">>, <<"b">>>>, <<<<"a">>, <<"a">>>>}

WhitelistSecondLines == {<<>>, <<<<"b">>>>}

WhitelistOtherLines == {<<>>, <<ZeroValue>>}

\* tables of five lines: the empty one, full ones, ones with lines of
\* different lengths, with "0" cells and with a repeated rule
WhitelistTables ==
    {<<l1, l2, l3, l3, l3>> : l1 \in WhitelistFirstLines,
                              l2 \in WhitelistSecondLines,
                              l3 \in WhitelistOtherLines}

WhitelistEnv(blob) ==
    [NoEnv EXCEPT !["CONTRACT_ADDRESS"] = <<"0x1">>, !["RPC_URL"] = <<"u">>,
                  !["RA_TLS_WHITELIST_CONFIG"] = blob]

\* a string that is not Base64: base64_decode stops at the '!'
MalformedWhitelist == <<"Y", "!", "Q">>

\* what the manifest or the contract may hold: an encoded table or a
\* string that does not decode
WhitelistInputs == {SerializeWhitelist(T) : T \in WhitelistTables} \cup {MalformedWhitelist}

\* what the contract may hold: the tables whose last three lines are
\* empty, or a string that does not decode
ContractInputs ==
    {SerializeWhitelist(T) : T \in {U \in WhitelistTables : U[3] = <<>>}}
    \cup {MalformedWhitelist}

InitWhitelist ==
    \E a \in WhitelistInputs, b \in ContractInputs :
       Started(<<Flag("--gr-bootstrap")>>, WhitelistEnv(a), <<>>,
               [EmptyFs(MainDataDirs, "ok") EXCEPT !.contract = b])

NextWhitelist == Next

SpecWhitelist == InitWhitelist /\ [][NextWhitelist]_vars

(***************************************************************************)
(* Optional services that fail: valid bootstrap starts on empty storage    *)
(* whose whitelists may not decode, whose contract may not answer, whose   *)
(* LAN IP may not be detected and whose RA-TLS library may not be found.   *)
(***************************************************************************)
DegradedArgvs ==
    {<<Flag("--gr-bootstrap")>>,
     <<Flag("--gr-bootstrap"), Arg("--gr-local-address", <<"h">>)>>,
     <<Flag("--gr-bootstrap"), Flag("--dry-run")>>}

\* a manifest table with one rule and a contract table with two
DegradedManifest == SerializeWhitelist(<<<<<<"a">>>>, <<<<"b">>>>, <<>>, <<>>, <<>>>>)
DegradedContract == SerializeWhitelist(<<<<<<"a">>, <<"b">>>>, <<<<"b">>>>, <<>>, <<>>, <<>>>>)

InitDegraded ==
    \E a \in DegradedArgvs,
       e \in {DegradedManifest, MalformedWhitelist},
       c \in {DegradedContract, MalformedWhitelist} :
       Started(a, WhitelistEnv(e), <<>>,
               [EmptyFs(MainDataDirs, "ok") EXCEPT !.contract = c])

NextDegraded == Next

SpecDegraded == InitDegraded /\ [][NextDegraded]_vars

(***************************************************************************)
(* Boots: bootstrap, join and dry-run starts on a data directory that is   *)
(* empty or was initialized by an earlier container, with the template     *)
(* there, missing or without ibdata1.                                      *)
(***************************************************************************)
BootArgvs ==
    {<<>>,
     <<Flag("--gr-bootstrap")>>,
     <<Flag("--gr-bootstrap"), Flag("--dry-run")>>,
     <<Arg("--gr-seeds", <<"a", ":", "1">>), Arg("--gr-group-name", <<"c">>)>>}

\* a data volume an earlier bootstrap start has initialized
InitializedDataDir ==
    [ibdata |-> TRUE, unique |-> {}, sentinel |-> TRUE, init_sql |-> "gr_bootstrap",
     statements |-> GrInitSqlStatements(1), copied |-> "full"]

BootTemplates == {"ok", "missing", "unmarked"}

BootStorage ==
    {EmptyFs(MainDataDirs, t) : t \in BootTemplates}
    \cup {[EmptyFs(MainDataDirs, t) EXCEPT !.data[DEFAULT_DATA_DIR] = InitializedDataDir] :
             t \in BootTemplates}

InitBoot ==
    \E a \in BootArgvs, f \in BootStorage : Started(a, NoEnv, <<>>, f)

NextBoot == Next

SpecBoot == InitBoot /\ [][NextBoot]_vars

(***************************************************************************)
(* Dry runs: a start with --dry-run, then a start without it from the same *)
(* command line, environment, ports and storage; the ghost twin keeps what *)
(* the dry run left, to set the second start against it.                   *)
(***************************************************************************)
DryRunArgvs ==
    {<<>>,
     <<Flag("--gr-bootstrap")>>,
     <<Flag("--gr-bootstrap"), Arg("--gr-port", <<"0">>)>>,
     <<Flag("--gr-bootstrap"), Flag("--help")>>,
     <<Arg("--gr-seeds", <<"a", ":", "1">>), Arg("--gr-local-address", <<"h">>)>>}

DryRunPortEnvs ==
    {<<>>, <<Seg(3306, 3306, 0)>>, <<Seg(33061, 65535, 0)>>}

DryRunStorage ==
    {EmptyFs(MainDataDirs, "ok"), EmptyFs(MainDataDirs, "missing"),
     [EmptyFs(MainDataDirs, "ok") EXCEPT !.data[DEFAULT_DATA_DIR] = InitializedDataDir]}

\* what a finished run leaves behind
Outcome ==
    [pc |-> pc, exit_code |-> exit_code, exit_reason |-> exit_reason, fs |-> fs,
     writes |-> writes, new_argv |-> new_argv, env |-> env, loc |-> loc]

\* the same command line without --dry-run is started on the inputs the dry
\* run started on
NormalRun ==
    /\ pc = "exited"
    /\ twin.out = <<>>
    /\ argv # <<>> /\ argv[1] = Flag("--dry-run")
    /\ twin' = [twin EXCEPT !.out = <<Outcome>>]
    /\ argv' = Tail(argv)
    /\ env' = twin.environ
    /\ fs' = fs0
    /\ pc' = "start"
    /\ config' = InitConfig
    /\ warned' = {}
    /\ exit_code' = -1
    /\ exit_reason' = ""
    /\ writes' = {}
    /\ loc' = InitLocals
    /\ new_argv' = <<>>
    /\ UNCHANGED <<starts, peer, portenv, fs0>>

InitDryRun ==
    \E a \in DryRunArgvs, pe \in DryRunPortEnvs, f \in DryRunStorage :
       Started(<<Flag("--dry-run")>> \o a, NoEnv, pe, f)

NextDryRun == Next \/ NormalRun

SpecDryRun == InitDryRun /\ [][NextDryRun]_vars

(***************************************************************************)
(* Two launcher processes on one storage.  The second is started while the *)
(* first is anywhere in main(): after its end the two runs are serialized, *)
(* before it they run side by side and the scheduler may switch between    *)
(* them at every step.  Storage and ports are shared, everything else is   *)
(* a process's own.                                                        *)
(***************************************************************************)
ConcurrentArgvs ==
    {<<Flag("--gr-bootstrap")>>,
     <<Flag("--gr-bootstrap"), Arg("--gr-port", <<"3", "3", "0", "6", "2">>)>>}

\* the variables of the running process, and the bytes /dev/urandom will
\* give it
Context ==
    [pc |-> pc, argv |-> argv, env |-> env, config |-> config, warned |-> warned,
     exit_code |-> exit_code, exit_reason |-> exit_reason, fs0 |-> fs0,
     writes |-> writes, loc |-> loc, new_argv |-> new_argv, urandom |-> fs.urandom]

Finished(p) == p \in {"exited", "handoff"}

\* the locals of a process none of whose I/O operations will fail
Reliable == [InitLocals EXCEPT !.io_failures = MaxIoFailures]

\* a second launcher is started on the same storage and environment, next
\* to the first (any later start next to it is a start here followed by
\* steps of the first alone) or after its end
StartPeer ==
    /\ peer = <<>>
    /\ pc = "start" \/ Finished(pc)
    /\ peer' = <<[serial |-> Finished(pc),
                   ctx |-> IF Finished(pc) THEN Context
                           ELSE [Context EXCEPT !.loc = Reliable]]>>
    /\ starts' = starts + 1
    /\ pc' = "start"
    /\ argv' \in ConcurrentArgvs
    /\ env' = twin.environ
    /\ config' = InitConfig
    /\ warned' = {}
    /\ exit_code' = -1
    /\ exit_reason' = ""
    /\ fs' = [fs EXCEPT !.urandom = RandomBytes(0, 0)]
    /\ fs0' = fs'
    /\ writes' = {}
    /\ loc' = Reliable
    /\ new_argv' = <<>>
    /\ UNCHANGED <<portenv, twin>>

\* the scheduler runs the other process
Switch ==
    /\ peer # <<>>
    /\ ~peer[1].serial
    /\ ~Finished(peer[1].ctx.pc)
    /\ peer' = <<[peer[1] EXCEPT !.ctx = Context]>>
    /\ LET c == peer[1].ctx IN
       /\ pc' = c.pc
       /\ argv' = c.argv
       /\ env' = c.env
       /\ config' = c.config
       /\ warned' = c.warned
       /\ exit_code' = c.exit_code
       /\ exit_reason' = c.exit_reason
       /\ fs0' = c.fs0
       /\ writes' = c.writes
       /\ loc' = c.loc
       /\ new_argv' = c.new_argv
       /\ fs' = [fs EXCEPT !.urandom = c.urandom]
    /\ UNCHANGED <<starts, portenv, twin>>

InitConcurrent ==
    \E a \in ConcurrentArgvs : Started(a, NoEnv, <<>>, EmptyFs(MainDataDirs, "ok"))

NextConcurrent ==
    \/ DoParseArgs
    \/ CheckMysqlPort
    \/ CheckGrPort
    \/ SetupDirs
    \/ InitDataDir
    \/ Whitelist
    \/ ReadGroupNameFile
    \/ UseGroupNameRead
    \/ IdentityAndSeeds
    \/ GrConfig
    \/ CreateSentinel
    \/ InitSql
    \/ Launch
    \/ StartPeer
    \/ Switch

SpecConcurrent == InitConcurrent /\ [][NextConcurrent]_vars

(***************************************************************************)
(* Coordination port: bootstrap starts whose coordination port is the      *)
(* default or given, free, occupied or not probeable, with seeds that      *)
(* carry a port or not, and the local address given or detected.           *)
(***************************************************************************)
CoordPortArgvs ==
    {<<Flag("--gr-bootstrap")>>,
     <<Flag("--gr-bootstrap"), Arg("--gr-seeds", <<"a", ",", "b", ":", "1">>)>>,
     <<Flag("--gr-bootstrap"), Arg("--gr-seeds", <<"a">>),
       Arg("--gr-local-address", <<"h">>)>>,
     <<Arg("--gr-port", <<"3", "3", "0", "6", "2">>), Arg("--gr-seeds", <<"a">>)>>}

CoordPortEnvs ==
    {<<>>,
     <<Seg(33061, 33061, 0)>>,
     <<Seg(33061, 33063, 0)>>,
     <<Seg(33061, 33061, 0), Seg(33062, 33062, -1)>>,
     <<Seg(33061, 33061, -1)>>,
     <<Seg(33062, 33062, 0)>>}

InitCoordPort ==
    \E a \in CoordPortArgvs, pe \in CoordPortEnvs :
       Started(a, NoEnv, pe, EmptyFs(MainDataDirs, "ok"))

NextCoordPort == Next

SpecCoordPort == InitCoordPort /\ [][NextCoordPort]_vars

(***************************************************************************)
(* Argument vector: the part of main() from the count of the arguments to  *)
(* execv, entered with every combination of what it reads: replication     *)
(* enabled or not, start-up script created or not, database port set or    *)
(* not, dry run or not, over two data directories and two key paths.       *)
(***************************************************************************)
ArgvPorts == {0, MYSQL_DEFAULT_PORT, MAX_PORT}

ArgvDataDirs == {DEFAULT_DATA_DIR, <<"/d">>}

ArgvKeyPaths == {DEFAULT_KEY_PATH, <<"/k">>}

InitArgv ==
    \E gr_enabled \in {0, 1}, init_sql_created \in {0, 1}, mysql_port \in ArgvPorts,
       dry_run \in {0, 1}, data_dir \in ArgvDataDirs, key_path \in ArgvKeyPaths :
       /\ pc = "sql_done"
       /\ argv = <<>>
       /\ env = NoEnv
       /\ portenv = <<>>
       /\ config = [ParseArgs(<<>>, NoEnv).cfg EXCEPT
                       !.mysql_port = mysql_port, !.dry_run = dry_run,
                       !.data_dir = data_dir, !.key_path = key_path]
       /\ warned = {}
       /\ exit_code = -1
       /\ exit_reason = ""
       /\ fs = EmptyFs(ArgvDataDirs, "ok")
       /\ fs0 = fs
       /\ writes = {}
       /\ loc = [InitLocals EXCEPT !.gr_enabled = gr_enabled,
                                   !.init_sql_created = init_sql_created]
       /\ new_argv = <<>>
       /\ starts = 1
       /\ twin = [environ |-> NoEnv, out |-> <<>>]
       /\ peer = <<>>

NextArgv == Launch

SpecArgv == InitArgv /\ [][NextArgv]_vars

(***************************************************************************)
(* Properties.                                                             *)
(***************************************************************************)
\* the positions of argv that give option o a value: "--o=value", or
\* "--o" followed by a token that does not start with '-'
CliIndices(a, o) ==
    {i \in 1..Len(a) :
        /\ a[i].opt = o
        /\ \/ a[i].eq
           \/ i < Len(a) /\ ~StartsWithDash(a[i + 1])}

Last(S) == CHOOSE i \in S : \A j \in S : j <= i

\* the value the command line gives option o (its last occurrence)
CliValue(a, o) ==
    LET i == Last(CliIndices(a, o)) IN
    IF a[i].eq THEN a[i].val ELSE a[i + 1].val

\* the positions of argv that give flag o, and the flag's value there
FlagIndices(a, o) == {i \in 1..Len(a) : a[i].opt = o}

FlagValue(a, o) ==
    LET i == Last(FlagIndices(a, o)) IN
    IF a[i].eq THEN (IF ParseBool(a[i].val) THEN 1 ELSE 0) ELSE 1

BoolOfText(t) == IF ParseBool(t) THEN 1 ELSE 0

Recognised ==
    DOMAIN StringOption \cup DOMAIN BoolOption \cup DOMAIN PortOption
    \cup {"--help", "-h"}

\* C3: every token the launcher does not recognise is in the argument
\* vector handed to mysqld.
C3_PassThrough ==
    pc = "handoff" =>
      \A i \in 1..Len(argv) :
         (argv[i].opt # "" /\ argv[i].opt \notin Recognised)
         => \E j \in 1..Len(new_argv) : new_argv[j] = argv[i]

\* C4: a port value outside [1,65535], on the command line or in the
\* environment, makes the launcher exit non-zero (a help request aside).
C4_InvalidPortIsFatal ==
    ( /\ pc # "start"
      /\ \A i \in 1..Len(argv) : argv[i].opt \notin {"--help", "-h"}
      /\ \/ \E o \in DOMAIN PortOption :
               /\ CliIndices(argv, o) # {}
               /\ ~ValidPort(Atoi(CliValue(argv, o)))
         \/ \E e \in DOMAIN PortEnv :
               EnvSet(env, e) /\ ~ValidPort(Atoi(env[e])) )
    => (pc = "exited" /\ exit_code = 1)

\* the exits the error taxonomy calls fatal-configuration
FatalConfiguration ==
    {"invalid_port", "mysql_port_in_use", "mysql_port_exhausted",
     "gr_port_in_use", "gr_port_exhausted", "no_local_address"}

\* C5: a fatal-configuration exit has status 1 and the run has created or
\* modified no persisted state.
C5_FatalConfigTouchesNothing ==
    (pc = "exited" /\ exit_reason \in FatalConfiguration)
    => (exit_code = 1 /\ fs = fs0 /\ writes = {})

\* C6: with no group name on the command line, in the environment or in
\* the persisted file, no bootstrap flag and no seeds, the run never hands
\* off, and its join-mode exit has status 1 with no file written.
C6_JoinModeNeedsSeeds ==
    ( /\ pc # "start"
      /\ ~NonEmpty(config.gr_group_name)
      /\ ~NonEmpty(fs0.group_name_file)
      /\ config.gr_bootstrap = 0
      /\ ~NonEmpty(config.gr_seeds) )
    => /\ pc # "handoff"
       /\ exit_reason = "join_needs_seeds" => (exit_code = 1 /\ writes = {})

\* the ports at which the answer of the probe can change, from `from` up:
\* the probe answers alike between two of them
Breakpoints(pe, from) ==
    {q \in {from} \cup {pe[k].lo : k \in 1..Len(pe)}
                  \cup {pe[k].hi + 1 : k \in 1..Len(pe)} :
        from <= q /\ q <= MAX_PORT}

AvailableFrom(pe, from) ==
    {q \in Breakpoints(pe, from) : IsPortAvailable(pe, q) = 1}

NotOccupiedFrom(pe, from) ==
    {q \in Breakpoints(pe, from) : IsPortAvailable(pe, q) # 0}

Min(S) == CHOOSE q \in S : \A r \in S : q <= r

MysqlPortFatal == {"mysql_port_in_use", "mysql_port_exhausted"}

GrPortFatal == {"gr_port_in_use", "gr_port_exhausted"}

\* C7: a pinned port (by the command line or the environment) whose first
\* probe answers occupied ends the run with status 1, with no scan and the
\* port left as requested.
C7_PinnedOccupiedIsFatal ==
    /\ (loc.mysql_probe = 0 /\ config.mysql_port_specified = 1)
       => /\ pc = "exited"
          /\ exit_code = 1
          /\ exit_reason = "mysql_port_in_use"
          /\ loc.mysql_scan = <<>>
          /\ config.mysql_port = loc.mysql_requested
    /\ (loc.gr_probe = 0 /\ config.gr_port_specified = 1)
       => /\ pc = "exited"
          /\ exit_code = 1
          /\ exit_reason = "gr_port_in_use"
          /\ loc.gr_scan = <<>>
          /\ config.gr_port = loc.gr_requested

\* the coordination port pinned by the environment is occupied
C7_Witness ==
    /\ pc = "exited"
    /\ exit_reason = "gr_port_in_use"
    /\ EnvSet(env, "GR_PORT")
    /\ config.gr_port_specified = 1
    /\ loc.gr_probe = 0
    /\ IsPortAvailable(portenv, config.gr_port) = 0

\* C8: a defaulted port whose first probe answers occupied is replaced by
\* the smallest port above the default, up to 65535, that is available; if
\* there is none the run ends with status 1.
C8_DefaultOccupiedScansUp ==
    /\ (loc.mysql_probe = 0 /\ config.mysql_port_specified = 0)
       => /\ loc.mysql_requested = MYSQL_DEFAULT_PORT
          /\ IF AvailableFrom(portenv, loc.mysql_requested + 1) = {}
             THEN /\ pc = "exited"
                  /\ exit_code = 1
                  /\ exit_reason = "mysql_port_exhausted"
             ELSE /\ exit_reason \notin MysqlPortFatal
                  /\ config.mysql_port =
                       Min(AvailableFrom(portenv, loc.mysql_requested + 1))
    /\ (loc.gr_probe = 0 /\ config.gr_port_specified = 0)
       => /\ loc.gr_requested = GR_DEFAULT_PORT
          /\ IF AvailableFrom(portenv, loc.gr_requested + 1) = {}
             THEN /\ pc = "exited"
                  /\ exit_code = 1
                  /\ exit_reason = "gr_port_exhausted"
             ELSE /\ exit_reason \notin GrPortFatal
                  /\ config.gr_port =
                       Min(AvailableFrom(portenv, loc.gr_requested + 1))

\* the scan from the occupied default passed more than one port
C8_Witness ==
    /\ pc = "ports_checked"
    /\ loc.mysql_probe = 0
    /\ config.mysql_port_specified = 0
    /\ loc.mysql_scan # <<>>
    /\ config.mysql_port > MYSQL_DEFAULT_PORT + 1

\* C9 as stated: every probe fails open, so a port whose probe is
\* inconclusive, the requested one or one met by the scan, is accepted as
\* the final port.
C9_EveryProbeFailsOpen ==
    /\ loc.mysql_probe = -1
       => (config.mysql_port = loc.mysql_requested
           /\ exit_reason \notin MysqlPortFatal)
    /\ (loc.mysql_scan # <<>>
        /\ NotOccupiedFrom(portenv, loc.mysql_scan[1]) # {})
       => config.mysql_port = Min(NotOccupiedFrom(portenv, loc.mysql_scan[1]))
    /\ loc.gr_probe = -1
       => (config.gr_port = loc.gr_requested
           /\ exit_reason \notin GrPortFatal)
    /\ (loc.gr_scan # <<>>
        /\ NotOccupiedFrom(portenv, loc.gr_scan[1]) # {})
       => config.gr_port = Min(NotOccupiedFrom(portenv, loc.gr_scan[1]))

\* C9 (amended): the first probe of the requested port fails open, the
\* requested port is kept with no scan and no fatal exit; the upward scan
\* passes over a port whose probe is inconclusive and ends on a port whose
\* probe answered available.
C9_InitialProbeFailsOpen ==
    /\ loc.mysql_probe = -1
       => /\ config.mysql_port = loc.mysql_requested
          /\ loc.mysql_scan = <<>>
          /\ exit_reason \notin MysqlPortFatal
    /\ (loc.mysql_scan # <<>> /\ exit_reason # "mysql_port_exhausted")
       => /\ IsPortAvailable(portenv, config.mysql_port) = 1
          /\ \A q \in Breakpoints(portenv, loc.mysql_scan[1]) :
                IsPortAvailable(portenv, q) = -1 => config.mysql_port # q
    /\ loc.gr_probe = -1
       => /\ config.gr_port = loc.gr_requested
          /\ loc.gr_scan = <<>>
          /\ exit_reason \notin GrPortFatal
    /\ (loc.gr_scan # <<>> /\ exit_reason # "gr_port_exhausted")
       => /\ IsPortAvailable(portenv, config.gr_port) = 1
          /\ \A q \in Breakpoints(portenv, loc.gr_scan[1]) :
                IsPortAvailable(portenv, q) = -1 => config.gr_port # q

\* an inconclusive first probe kept the database port, and the scan for
\* the coordination port passed over a port whose probe was inconclusive
C9_Witness ==
    /\ pc = "ports_checked"
    /\ loc.mysql_probe = -1
    /\ config.mysql_port = loc.mysql_requested
    /\ loc.gr_scan # <<>>
    /\ IsPortAvailable(portenv, loc.gr_scan[1]) = -1
    /\ config.gr_port > loc.gr_scan[1]

\* C10: at handoff the database port and the coordination port differ.
C10_PortsDiffer ==
    pc = "handoff" => config.mysql_port # config.gr_port

\* the group name has been resolved in this start, with no name given on
\* the command line or in the environment
ResolvedWithoutExplicitName ==
    loc.group_source # "" /\ ~NonEmpty(config.gr_group_name)

C11_Resolved ==
    ResolvedWithoutExplicitName =>
      IF NonEmpty(fs0.group_name_file)
      THEN /\ loc.group_source = "file"
           /\ loc.gr_group_name = fs0.group_name_file
           /\ fs.group_name_file = fs0.group_name_file
      ELSE /\ loc.group_source = "generated"
           /\ IF Wrote("group_name_file") \in writes
              THEN fs.group_name_file = loc.gr_group_name
              ELSE /\ fs.group_name_file = fs0.group_name_file
                   /\ loc.io_failures >= 1

C11_FileKept ==
    NonEmpty(fs.group_name_file) => fs'.group_name_file = fs.group_name_file

C12_GroupNamePriority ==
    loc.group_source # "" =>
      LET cli == CliIndices(argv, "--gr-group-name") # {}
                 /\ Len(CliValue(argv, "--gr-group-name")) > 0
          environment == EnvSet(env, "MYSQL_GR_GROUP_NAME")
          file == NonEmpty(fs0.group_name_file)
      IN /\ loc.gr_group_name =
              IF cli THEN CliValue(argv, "--gr-group-name")
              ELSE IF environment THEN env["MYSQL_GR_GROUP_NAME"]
              ELSE IF file THEN fs0.group_name_file
              ELSE GenerateUuid(fs0.urandom)
         /\ loc.group_source = "generated"
            <=> (~cli /\ ~environment /\ ~file)

\* the name the resolution must return for what the start was given
ExpectedGroupName ==
    IF NonEmpty(config.gr_group_name) THEN TruncateName(config.gr_group_name)
    ELSE IF NonEmpty(fs0.group_name_file) THEN fs0.group_name_file
    ELSE GenerateUuid(fs0.urandom)

\* C15: after a resolution, whatever its source, the plaintext mirror
\* holds the returned name, unless writing the mirror failed: then the
\* mirror is as it was, the returned name is the same, and the start goes
\* on (it stops at this point only for join mode without seeds).
C15_PlaintextMirror ==
    loc.group_source # "" =>
      /\ loc.gr_group_name = ExpectedGroupName
      /\ IF Wrote("plaintext_file") \in writes
         THEN fs.plaintext_file = loc.gr_group_name
         ELSE fs.plaintext_file = fs0.plaintext_file /\ loc.io_failures >= 1
      /\ exit_reason = "join_needs_seeds"
         => (config.gr_bootstrap = 0 /\ ~NonEmpty(config.gr_seeds))

\* the start that generated the name could not write the mirror; a later
\* start resolved the name from the file, mirrored it and handed off
C15_Witness ==
    /\ starts > 1
    /\ pc = "handoff"
    /\ loc.group_source = "file"
    /\ Wrote("plaintext_file") \in writes
    /\ fs0.plaintext_file = NULL
    /\ fs.plaintext_file = loc.gr_group_name

\* main() has called get_or_create_server_id in this start
IdentityDone ==
    /\ loc.gr_enabled = 1
    /\ \/ pc \in {"identity_done", "gr_config_done", "sentinel_done", "sql_done", "handoff"}
       \/ /\ pc = "exited"
          /\ exit_reason \in {"no_local_address", "gr_config", "dry_run",
                              "execv_failed"}

\* a 32-bit unsigned number as its four bytes, lowest first
U32Times33Plus(h, b) ==
    LET t1 == h[1] * 33 + b
        t2 == h[2] * 33 + (t1 \div 256)
        t3 == h[3] * 33 + (t2 \div 256)
        t4 == h[4] * 33 + (t3 \div 256)
    IN <<t1 % 256, t2 % 256, t3 % 256, t4 % 256>>

RECURSIVE U32OverBytes(_, _, _)
U32OverBytes(h, str, i) ==
    IF i > Len(str) THEN h
    ELSE U32OverBytes(U32Times33Plus(h, ByteOf(str[i])), str, i + 1)

\* (h mod 4294967294) + 1
U32Reduced(h) ==
    IF h = <<254, 255, 255, 255>> THEN <<1, 0, 0, 0>>
    ELSE IF h = <<255, 255, 255, 255>> THEN <<2, 0, 0, 0>>
    ELSE IF h[1] < 255 THEN [h EXCEPT ![1] = @ + 1]
    ELSE IF h[2] < 255 THEN [h EXCEPT ![1] = 0, ![2] = @ + 1]
    ELSE IF h[3] < 255 THEN [h EXCEPT ![1] = 0, ![2] = 0, ![3] = @ + 1]
    ELSE <<0, 0, 0, h[4] + 1>>

\* the id the derivation rule gives, as <<high 16 bits, low 16 bits>>
ClaimedServerId(ip, port) ==
    LET h0 == U32OverBytes(<<5381 % 256, 5381 \div 256, 0, 0>>, ip, 1)
        h1 == U32Times33Plus(h0, port % 256)
        h2 == U32Times33Plus(h1, (port \div 256) % 256)
        id == U32Reduced(h2)
    IN <<id[4] * 256 + id[3], id[2] * 256 + id[1]>>

\* C13: with no stored id, the server id is the value of the rule
\* h = 5381; h = h * 33 + byte over the address; h = h * 33 + port mod 256;
\* h = h * 33 + (port div 256) mod 256, all modulo 2^32; id = (h mod
\* 4294967294) + 1; it is neither 0 nor 2^32 - 1.
C13_ServerIdDerivation ==
    (IdentityDone /\ fs0.server_id_file = <<0, 0>>)
    => /\ loc.server_id = ClaimedServerId(loc.lan_ip, config.gr_port)
       /\ loc.server_id # <<0, 0>>
       /\ loc.server_id # <<65535, 65535>>

\* an id was derived from an address long enough for the hash to wrap
C13_Witness ==
    /\ pc = "handoff"
    /\ fs0.server_id_file = <<0, 0>>
    /\ Len(loc.lan_ip) >= 13
    /\ config.gr_port = 65280
    /\ loc.server_id = ClaimedServerId(loc.lan_ip, config.gr_port)
    /\ loc.server_id[1] > 0

C14_Returned ==
    IdentityDone =>
      IF fs0.server_id_file # <<0, 0>>
      THEN /\ loc.server_id = fs0.server_id_file
           /\ fs.server_id_file = fs0.server_id_file
           /\ Wrote("server_id_file") \notin writes
      ELSE /\ loc.server_id = DeriveServerId(loc.lan_ip, config.gr_port)
           /\ IF Wrote("server_id_file") \in writes
              THEN fs.server_id_file = loc.server_id
              ELSE /\ fs.server_id_file = fs0.server_id_file
                   /\ loc.io_failures >= 1

C14_FileKept ==
    fs.server_id_file # <<0, 0>> => fs'.server_id_file = fs.server_id_file

HexChars ==
    {"0", "1", "2", "3", "4", "5", "6", "7", "8", "9",
     "a", "b", "c", "d", "e", "f"}

HexVal(c) ==
    CASE c = "a" -> 10 [] c = "b" -> 11 [] c = "c" -> 12
      [] c = "d" -> 13 [] c = "e" -> 14 [] c = "f" -> 15
      [] OTHER -> DigitVal(c)

HyphenPositions == {9, 14, 19, 24}

\* byte k (0..15) that a name spells, hyphens left out
NameByte(name, k) ==
    LET NotHyphen(c) == c # "-"
        hex == SelectSeq(name, NotHyphen)
    IN 16 * HexVal(hex[2 * k + 1]) + HexVal(hex[2 * k + 2])

\* C16: a generated name has 36 characters, hyphens after 8, 4, 4 and 4
\* lowercase hex digits and 12 more digits after the last; its version
\* nibble is 4, its variant bits are 10, and every other bit is the bit of
\* the random input.
C16_GeneratedNameIsUuidV4 ==
    loc.group_source = "generated" =>
      LET name == loc.gr_group_name
          rb == fs0.urandom
      IN /\ Len(name) = 36
         /\ \A i \in 1..36 :
               IF i \in HyphenPositions THEN name[i] = "-"
               ELSE name[i] \in HexChars
         /\ name[15] = "4"
         /\ NameByte(name, 8) \div 64 = 2
         /\ \A k \in 0..15 :
               CASE k = 6 -> NameByte(name, k) % 16 = rb[k + 1] % 16
                 [] k = 8 -> NameByte(name, k) % 64 = rb[k + 1] % 64
                 [] OTHER -> NameByte(name, k) = rb[k + 1]

\* a name was generated from bytes whose version and variant bits had to
\* be replaced
C16_Witness ==
    /\ loc.group_source = "generated"
    /\ fs0.urandom[7] \div 16 = 15
    /\ fs0.urandom[9] \div 64 = 3
    /\ loc.gr_group_name[15] = "4"
    /\ fs.group_name_file = loc.gr_group_name

\* the pieces of a string between its commas, empty ones included
RECURSIVE SplitOnComma(_)
SplitOnComma(str) ==
    IF \A i \in 1..Len(str) : str[i] # "," THEN <<str>>
    ELSE LET i == CHOOSE k \in 1..Len(str) :
                     str[k] = "," /\ \A j \in 1..(k - 1) : str[j] # ","
         IN <<SubSeq(str, 1, i - 1)>>
            \o SplitOnComma(SubSeq(str, i + 1, Len(str)))

\* a piece without the spaces around it
Stripped(t) ==
    LET solid == {i \in 1..Len(t) : t[i] # " "} IN
    IF solid = {} THEN <<>>
    ELSE SubSeq(t, Min(solid), Last(solid))

\* "host:port" of a piece that has content
WithPort(t, port) ==
    IF \E i \in 1..Len(t) : t[i] = ":" THEN t ELSE t \o <<":">> \o Itoa(port)

RECURSIVE JoinWithCommas(_)
JoinWithCommas(list) ==
    IF list = <<>> THEN <<>>
    ELSE IF Len(list) = 1 THEN list[1]
    ELSE list[1] \o <<",">> \o JoinWithCommas(Tail(list))

\* the seed list the rule gives for a seed string and a port
ClaimedSeeds(str, port) ==
    LET HasContent(t) == t # <<>>
        pieces == SplitOnComma(str)
        solid == SelectSeq([i \in 1..Len(pieces) |-> Stripped(pieces[i])],
                           HasContent)
        entries == [i \in 1..Len(solid) |-> WithPort(solid[i], port)]
        First(i) == \A j \in 1..(i - 1) : entries[j] # entries[i]
        kept == SelectSeq([i \in 1..Len(entries) |-> i], First)
    IN JoinWithCommas([i \in 1..Len(kept) |-> entries[kept[i]]])

Merged ==
    /\ NonEmpty(config.whitelist_config)
    /\ NonEmpty(loc.contract_whitelist)

\* the merged table was encoded and exported
MergedAndExported ==
    /\ Merged
    /\ env["RA_TLS_WHITELIST_CONFIG"] = SerializeWhitelist(loc.env_csv)

\* rule i of a table: cell i of every column, "0" where the column is
\* shorter
RuleOf(T, i) == [c \in 1..5 |-> IF i <= Len(T[c]) THEN T[c][i] ELSE <<"0">>]

\* the numbers of the rules of a table: as many as its longest column has
\* cells
RuleNumbers(T) == {i \in 1..256 : \E c \in 1..5 : i <= Len(T[c])}

RulesOf(T) == {RuleOf(T, i) : i \in RuleNumbers(T)}

\* how often a rule occurs in a table
Occurrences(T, rule) == Cardinality({i \in RuleNumbers(T) : RuleOf(T, i) = rule})

\* C18: merging an encoded table with itself gives that encoded table
\* back, and no rule occurs in the result more often than in the table.
C18_MergeIsIdempotent ==
    (MergedAndExported /\ loc.contract_whitelist = config.whitelist_config) =>
      /\ env["RA_TLS_WHITELIST_CONFIG"] = config.whitelist_config
      /\ \A rule \in RulesOf(loc.env_csv) :
            Occurrences(loc.env_csv, rule) <= Occurrences(loc.contract_csv, rule)

\* C19: merging the manifest's table with the contract's gives the same
\* set of rules as merging them the other way round, also when columns
\* have different lengths (a missing cell counts as "0").
C19_MergeIsCommutativeInContent ==
    Merged =>
      RulesOf(loc.env_csv)
        = RulesOf(MergedCsv(loc.contract_whitelist, config.whitelist_config).env_csv)

\* C20: decoding the encoding of a table of five columns gives the table
\* back, the empty table and tables with "0" cells included.
C20_EncodingRoundTrips ==
    Merged =>
      \A T \in WhitelistTables :
         loc.contract_whitelist = SerializeWhitelist(T) => loc.contract_csv = T

\* the manifest's table as parse_whitelist reads it
EnvTable == ParseWhitelist(config.whitelist_config, EmptyCsv).csv

\* C21: the rules of the merged table are those of the manifest's table
\* together with those of the contract's table: every rule of the
\* manifest is kept, every rule of the contract is there as one aligned
\* tuple, and no tuple appears that is in neither input.
C21_MergeIsUnion ==
    Merged =>
      RulesOf(loc.env_csv) = RulesOf(EnvTable) \cup RulesOf(loc.contract_csv)

\* the characters base64_decode takes or skips
Base64Accepted == Base64Chars \cup {"=", "\n", "\r", " "}

\* a string with a character that is neither of the Base64 alphabet nor
\* padding or white space
Malformed(str) == \E k \in 1..Len(str) : str[k] \notin Base64Accepted

\* the rules of the table the launcher leaves in RA_TLS_WHITELIST_CONFIG
ExportedRules == RulesOf(ParseWhitelist(env["RA_TLS_WHITELIST_CONFIG"], EmptyCsv).csv)

\* C22: when one of the two strings does not decode, it counts as the
\* empty table: the merged table has exactly the rules of the other,
\* well-formed table; with a bad contract string the whitelist left in
\* the environment by that step still has exactly the manifest's rules,
\* and the run goes on: if it ends, it ends in a later step.
C22_MalformedIsEmptyTable ==
    Merged =>
      /\ (/\ pc = "whitelist_done"
          /\ Malformed(loc.contract_whitelist)
          /\ ~Malformed(config.whitelist_config)) =>
            LET rules == RulesOf(EnvTable)
            IN /\ RulesOf(loc.env_csv) = rules
               /\ ExportedRules = rules
      /\ (~Malformed(loc.contract_whitelist) /\ Malformed(config.whitelist_config)) =>
            RulesOf(loc.env_csv) = RulesOf(loc.contract_csv)
      /\ (Malformed(loc.contract_whitelist) \/ Malformed(config.whitelist_config)) =>
            /\ pc # "data_ready"
            /\ pc = "exited" =>
                  exit_reason \in {"no_local_address", "gr_config", "execv_failed"}

\* a run handed over after the contract answered with a string that does
\* not decode, the manifest's two rules being the exported ones
C22_Witness ==
    /\ pc = "handoff"
    /\ Merged
    /\ Malformed(loc.contract_whitelist)
    /\ ~Malformed(config.whitelist_config)
    /\ Cardinality(RulesOf(EnvTable)) = 2
    /\ ExportedRules = RulesOf(EnvTable)
    /\ env["RA_TLS_WHITELIST_CONFIG"] # config.whitelist_config

\* the contract was asked and gave no whitelist
ContractReadFailed ==
    /\ pc \notin {"start", "parsed", "mysql_port_checked", "ports_checked",
                  "dirs_done", "data_ready"}
    /\ NonEmpty(config.contract_address) /\ NonEmpty(config.rpc_url)
    /\ loc.contract_whitelist = NULL

\* the LAN IP was looked for and not found
LanIpNotDetected ==
    /\ pc \in {"identity_done", "gr_config_done", "sentinel_done", "sql_done", "handoff", "exited"}
    /\ exit_reason \notin {"template", "join_needs_seeds"}
    /\ loc.gr_enabled = 1
    /\ loc.lan_ip = <<>>

\* C23 as stated: a run whose only failures are a contract that does not
\* answer, a whitelist that does not decode, a LAN IP that is not
\* detected or an RA-TLS library that is not found never exits with a
\* status other than 0, and with a contract that does not answer the
\* whitelist in the environment is the manifest's.
C23_DegradedNeverBlocks ==
    /\ (pc = "exited" /\ loc.io_failures = 0) => exit_code = 0
    /\ ContractReadFailed => env["RA_TLS_WHITELIST_CONFIG"] = config.whitelist_config

\* C23, amended: such a run exits with a status other than 0 only when
\* the LAN IP was not detected and no --gr-local-address was given (the
\* local address cannot be determined); with a contract that does not
\* answer the whitelist in the environment is the manifest's.
C23_DegradedBlocksOnlyWithoutLocalAddress ==
    /\ (pc = "exited" /\ loc.io_failures = 0 /\ exit_code # 0) =>
          /\ exit_reason = "no_local_address"
          /\ LanIpNotDetected
          /\ ~NonEmpty(config.gr_local_address)
    /\ ContractReadFailed => env["RA_TLS_WHITELIST_CONFIG"] = config.whitelist_config

\* a hand-over after all four: the contract did not answer, the manifest's
\* whitelist does not decode, the LAN IP was not detected (the address
\* was given) and the RA-TLS library was not found
C23_Witness ==
    /\ pc = "handoff"
    /\ loc.io_failures = 0
    /\ ContractReadFailed
    /\ Malformed(config.whitelist_config)
    /\ LanIpNotDetected
    /\ loc.ratls_lib = 0
    /\ GetEnv(env, "LD_PRELOAD") = NULL

\* the data directory now and as this start found it
DataDir == fs.data[DEFAULT_DATA_DIR]
DataDir0 == fs0.data[DEFAULT_DATA_DIR]

\* C24: from an empty data directory, the sentinel is not there before a
\* start has done the whole pass (the template copied with ibdata1, the
\* instance-unique files removed, the replication config and the start-up
\* script written), and a start that ends with a status other than 0
\* leaves the sentinel absent.
C24_SentinelAfterFullPass ==
    /\ (DataDir.sentinel /\ ~DataDir0.sentinel) =>
          /\ DataDir.ibdata
          /\ DataDir.unique = {}
          /\ Wrote("gr_config") \in writes
          /\ Wrote("init_sql") \in writes
    /\ (pc = "exited" /\ exit_code # 0 /\ ~DataDir0.sentinel) => ~DataDir.sentinel

\* a start in which nothing failed and that handed over to mysqld
SuccessfulRun == pc = "handoff" /\ loc.io_failures = 0

\* the start is the first on the empty directory, or finds what a
\* successful start leaves: the whole tree and the sentinel
AfterSuccessfulRuns ==
    starts = 1 \/ (DataDir0.sentinel /\ DataDir0.copied = "full")

\* C25: from an empty data directory and over successful starts, the
\* template is copied once: the first start that hands over has copied
\* it, before it wrote any start-up script, and a successful start leaves
\* the sentinel and the whole tree; a start on a directory that has the
\* sentinel copies nothing and removes no instance-unique file, and
\* every successful start writes the start-up script anew.
C25_MaterializeOnceRegenerateAlways ==
    /\ (starts = 1 /\ pc = "handoff") => Wrote("datadir") \in writes
    /\ pc \in {"dirs_done", "data_ready", "whitelist_done", "group_resolved",
               "identity_done", "gr_config_done", "sentinel_done"} =>
          Wrote("init_sql") \notin writes
    /\ (SuccessfulRun /\ AfterSuccessfulRuns) =>
          /\ DataDir.sentinel
          /\ DataDir.copied = "full"
          /\ Wrote("init_sql") \in writes
          /\ DataDir.init_sql = InitSqlKind(loc.gr_enabled, config.gr_bootstrap)
    /\ DataDir0.sentinel =>
          /\ Wrote("datadir") \notin writes
          /\ Unlinked("unique_files") \notin writes

\* a second successful start after a successful first one: nothing is
\* copied, the start-up script is written again
C25_Witness ==
    /\ starts = 2
    /\ SuccessfulRun
    /\ DataDir0.sentinel /\ DataDir0.copied = "full" /\ DataDir0.init_sql # ""
    /\ Wrote("datadir") \notin writes
    /\ Wrote("init_sql") \in writes

\* C26: a data directory left with part of the template's tree is seen
\* as incomplete: a start that finds it so and gets past the
\* data-directory step has copied the template again, and no start
\* hands over on a partly copied directory.
C26_PartialCopyIsRetried ==
    /\ (/\ DataDir0.copied = "partial"
        /\ pc \notin {"start", "parsed", "mysql_port_checked", "ports_checked",
                      "dirs_done", "exited"}) =>
          Wrote("datadir") \in writes
    /\ pc = "handoff" => DataDir.copied # "partial"

\* C27: whenever the launcher hands over on a data directory that was
\* copied from the template, by this start or an earlier one, none of
\* the template's instance-unique files is in it.
C27_NoSharedUniqueFiles ==
    (pc = "handoff" /\ DataDir.copied # "none") => DataDir.unique = {}

\* the statements that start replication or switch the bootstrap flag
ReplicationStatements ==
    {START_GROUP_REPLICATION, BOOTSTRAP_GROUP_ON, BOOTSTRAP_GROUP_OFF}

\* the bodies of the events the script schedules
Scheduled(statements) ==
    {statements[k].do : k \in {i \in 1..Len(statements) : statements[i].event # ""}}

\* C28: the replication config has start-on-boot OFF and bootstrap-group
\* OFF whatever the bootstrap flag is; in the start-up script a statement
\* that starts replication or switches the bootstrap flag is never
\* executed as the script is read, only as the body of an event
\* scheduled a fixed number of seconds ahead and not preserved after it
\* fires; a replication script schedules the start, and in bootstrap mode
\* the two switches of the flag too.
C28_ReplicationStartIsDeferred ==
    /\ \A k \in 1..Len(fs.gr_config) :
          /\ fs.gr_config[k].start_on_boot = "OFF"
          /\ fs.gr_config[k].bootstrap_group = "OFF"
    /\ \A k \in 1..Len(DataDir.statements) :
          LET st == DataDir.statements[k] IN
          st.do \in ReplicationStatements =>
             /\ st.event # ""
             /\ st.seconds \in {10, 12, 14}
             /\ ~st.preserve
    /\ Wrote("init_sql") \in writes =>
          Scheduled(DataDir.statements) =
             IF loc.gr_enabled = 0 THEN {}
             ELSE IF config.gr_bootstrap = 1 THEN ReplicationStatements
             ELSE {START_GROUP_REPLICATION}

\* a bootstrap start that handed over: config and script are written, the
\* start of replication is the body of an event 12 seconds ahead
C28_Witness ==
    /\ pc = "handoff"
    /\ config.gr_bootstrap = 1
    /\ Wrote("gr_config") \in writes /\ Len(fs.gr_config) = 1
    /\ Wrote("init_sql") \in writes
    /\ \E k \in 1..Len(DataDir.statements) :
          DataDir.statements[k] = Event("mysql.gr_start", 12, START_GROUP_REPLICATION)

\* main() is past the start-up script step
ScriptStepDone ==
    \/ pc \in {"sql_done", "handoff"}
    \/ pc = "exited" /\ exit_reason \in {"dry_run", "execv_failed"}

\* this start could not write the start-up script
ScriptWriteFailed == ScriptStepDone /\ Wrote("init_sql") \notin writes

\* the --init-file arguments of the vector built for mysqld
InitFileArgs == {k \in 1..Len(new_argv) : new_argv[k].opt = "--init-file"}

\* C29: a start that cannot write the start-up script goes on: when that
\* is its only failure it ends, if at all, by the exit 0 of a dry run,
\* and the vector built for mysqld has no --init-file argument; a start
\* that wrote the script passes exactly one, naming that script.
C29_ScriptWriteFailureIsNotFatal ==
    /\ ScriptWriteFailed =>
          /\ InitFileArgs = {}
          /\ (pc = "exited" /\ loc.io_failures = 1) => exit_code = 0
    /\ (ScriptStepDone /\ pc # "sql_done" /\ Wrote("init_sql") \in writes) =>
          \E k \in 1..Len(new_argv) :
             /\ InitFileArgs = {k}
             /\ new_argv[k].val = config.data_dir \o <<"/">> \o INIT_SQL_FILE

\* a hand-over, and a dry run, after the script could not be written
C29_Witness ==
    /\ ScriptWriteFailed
    /\ loc.io_failures = 1
    /\ pc = "handoff"
    /\ Len(new_argv) >= 7
    /\ InitFileArgs = {}

\* main() has not yet looked at the data directory
BeforeDataDirStep ==
    pc \in {"start", "parsed", "mysql_port_checked", "ports_checked", "dirs_done"}

\* C30: a start that finds no ibdata1 in the data directory and the
\* template missing or without ibdata1 gets no further than the
\* data-directory step: it exits with status 1, nothing copied, no
\* sentinel written, the data directory as it was, no hand-over; a start
\* that finds ibdata1 in the data directory never exits over the
\* template, whatever the template's state, and copies nothing.
C30_FatalData ==
    /\ (~DataDir0.ibdata /\ fs0.template # "ok" /\ ~BeforeDataDirStep) =>
          /\ pc = "exited"
          /\ exit_code = 1
          /\ Wrote("datadir") \notin writes
          /\ Wrote("sentinel") \notin writes
          /\ DataDir = DataDir0
    /\ DataDir0.ibdata =>
          /\ exit_reason # "template"
          /\ Wrote("datadir") \notin writes

\* the exit on an empty data directory with a template that lacks ibdata1
C30_Witness ==
    /\ pc = "exited"
    /\ exit_code = 1
    /\ exit_reason = "template"
    /\ fs0.template = "unmarked"
    /\ ~DataDir0.ibdata
    /\ DataDir = EmptyDataDir

\* the run before this one was a dry run from the same inputs, and the
\* system answered both alike: no operation failed, the same LAN address was
\* detected and the same RA-TLS library found
AfterDryRun ==
    /\ twin.out # <<>>
    /\ pc \in {"exited", "handoff"}
    /\ loc.io_failures = 0 /\ twin.out[1].loc.io_failures = 0
    /\ loc.lan_ip = twin.out[1].loc.lan_ip
    /\ loc.ratls_lib = twin.out[1].loc.ratls_lib

\* C31: a process that exits does so with status 0 after a dry run or a help
\* request and with status 1 otherwise (every fatal configuration, port or
\* data failure and a failed execv); a run with dry-run set never hands
\* over, and it leaves the persisted files, the generated config, the
\* start-up script, the prepared environment and the argument vector that
\* the run without dry-run leaves from the same inputs, ending in exit 0
\* exactly where that run hands over and in the same fatal exit otherwise.
C31_ExitStatusAndDryRun ==
    /\ pc = "exited" =>
          /\ exit_code \in {0, 1}
          /\ exit_code = 0 <=> exit_reason \in {"dry_run", "help"}
    /\ (pc = "handoff" \/ exit_reason = "execv_failed") => config.dry_run = 0
    /\ exit_reason = "dry_run" => config.dry_run = 1
    /\ AfterDryRun =>
          LET dry == twin.out[1] IN
          /\ fs = dry.fs
          /\ writes = dry.writes
          /\ new_argv = dry.new_argv
          /\ env = dry.env
          /\ [loc EXCEPT !.new_argc = 0] = [dry.loc EXCEPT !.new_argc = 0]
          /\ loc.new_argc = dry.loc.new_argc
          /\ pc = "handoff" <=> dry.exit_reason = "dry_run"
          /\ pc = "exited" => exit_reason = dry.exit_reason /\ exit_code = dry.exit_code

\* a dry run wrote the config, the script and a vector and exited 0, and the
\* run without dry-run from the same inputs has handed over
C31_Witness ==
    /\ AfterDryRun
    /\ pc = "handoff"
    /\ twin.out[1].exit_code = 0
    /\ twin.out[1].exit_reason = "dry_run"
    /\ Wrote("datadir") \in twin.out[1].writes
    /\ twin.out[1].fs.gr_config # <<>>
    /\ twin.out[1].new_argv # <<>>

\* the two processes of a pair: the running one and the other
Pair == {[loc |-> loc, pc |-> pc, writes |-> writes],
         [loc |-> peer[1].ctx.loc, pc |-> peer[1].ctx.pc,
          writes |-> peer[1].ctx.writes]}

\* the process that was started first
FirstOfPair == IF starts = 1 THEN Context ELSE peer[1].ctx

Serialized == peer # <<>> /\ peer[1].serial
SideBySide == peer # <<>> /\ ~peer[1].serial

\* the group names resolved so far, and the server ids
ResolvedNames == {p.loc.gr_group_name : p \in {q \in Pair : q.loc.group_source # ""}}
ResolvedIds == {p.loc.server_id : p \in {q \in Pair : q.loc.server_id # <<0, 0>>}}

\* a process has written the replication config, with a group name that is
\* not the one the group-name file holds
LostUpdate ==
    \E p \in Pair :
       /\ p.pc \in {"gr_config_done", "sentinel_done", "sql_done", "handoff"}
       /\ p.loc.gr_group_name # fs.group_name_file

ServerIdPortNumbers == {Atoi(p) : p \in ServerIdPorts}

\* C33: a server id derived (no id file) from an IP string and a
\* coordination port in 1..65535 is not the id derived from the same IP
\* string and any other port in 1..65535.
C33_PortsGiveDistinctIds ==
    (/\ loc.server_id # <<0, 0>>
     /\ loc.lan_ip # <<>>
     /\ ~ServerIdFromFile(fs0)
     /\ config.gr_port \in 1..MAX_PORT) =>
        \A q \in ServerIdPortNumbers \ {config.gr_port} :
           DeriveServerId(loc.lan_ip, q) # loc.server_id

\* C34: once a start that was given a non-empty group name (environment
\* variable or command line) has resolved it, and no write of the start
\* failed, the group-name file holds that name.
C34_ExplicitNameIsPersisted ==
    (/\ loc.group_source # ""
     /\ loc.io_failures = 0
     /\ \/ NonEmpty(GetEnv(env, "MYSQL_GR_GROUP_NAME"))
        \/ CliIndices(argv, "--gr-group-name") # {}) =>
        fs.group_name_file = loc.gr_group_name

\* the events a start-up script may find in the server, left by an earlier
\* execution whose events have not fired yet
EventNames == {"mysql.gr_bootstrap_on", "mysql.gr_start", "mysql.gr_bootstrap_off"}

\* the event a DROP EVENT IF EXISTS statement removes, "" for other statements
DropTarget(st) ==
    CASE st.do = "DROP EVENT IF EXISTS mysql.gr_bootstrap_on" -> "mysql.gr_bootstrap_on"
      [] st.do = "DROP EVENT IF EXISTS mysql.gr_start" -> "mysql.gr_start"
      [] st.do = "DROP EVENT IF EXISTS mysql.gr_bootstrap_off" -> "mysql.gr_bootstrap_off"
      [] OTHER -> ""

\* mysqld executes the script from statement k with the events `events` in
\* the server: CREATE EVENT fails when the event exists
RECURSIVE ScriptFails(_, _, _)
ScriptFails(statements, k, events) ==
    IF k > Len(statements) THEN FALSE
    ELSE IF statements[k].event # ""
    THEN \/ statements[k].event \in events
         \/ ScriptFails(statements, k + 1, events \cup {statements[k].event})
    ELSE ScriptFails(statements, k + 1, events \ {DropTarget(statements[k])})

\* the positions of the script that schedule an event with body `body`
EventsDoing(statements, body) ==
    {k \in 1..Len(statements) : statements[k].event # "" /\ statements[k].do = body}

\* C35: a replication start-up script written by a bootstrap start drops
\* the three events before it creates any, and schedules exactly three
\* one-shot events: the switch of the bootstrap flag to ON strictly before
\* the start of replication, and that strictly before the switch to OFF
\* (10, 12 and 14 seconds ahead); a script written by a join start
\* schedules exactly one event, the start of replication, and none that
\* switches the bootstrap flag; executed on a server that still holds any
\* of the events, neither script fails on an existing event.
C35_BootstrapEventOrdering ==
    (Wrote("init_sql") \in writes /\ loc.gr_enabled = 1) =>
       LET st == DataDir.statements
           on == EventsDoing(st, BOOTSTRAP_GROUP_ON)
           start == EventsDoing(st, START_GROUP_REPLICATION)
           off == EventsDoing(st, BOOTSTRAP_GROUP_OFF)
           events == {k \in 1..Len(st) : st[k].event # ""}
           drops == {k \in 1..Len(st) : DropTarget(st[k]) # ""}
       IN
       /\ Cardinality(start) = 1
       /\ events = on \cup start \cup off
       /\ \A k \in events : ~st[k].preserve
       /\ \A d \in drops, k \in events : d < k
       /\ config.gr_bootstrap = 1 =>
             /\ Cardinality(on) = 1 /\ Cardinality(off) = 1
             /\ {DropTarget(st[d]) : d \in drops} = EventNames
             /\ \A i \in on, j \in start, k \in off :
                   /\ st[i].seconds < st[j].seconds
                   /\ st[j].seconds < st[k].seconds
                   /\ <<st[i].seconds, st[j].seconds, st[k].seconds>> = <<10, 12, 14>>
       /\ config.gr_bootstrap = 0 =>
             /\ on = {} /\ off = {}
             /\ \A j \in start : st[j].seconds = 10
       /\ \A left \in SUBSET EventNames : ~ScriptFails(st, 1, left)

\* a bootstrap start on a data directory an earlier start initialized has
\* written its script again, with the three events, and handed over
C35_Witness ==
    /\ pc = "handoff"
    /\ config.gr_bootstrap = 1
    /\ DataDir0.sentinel /\ DataDir0.init_sql # ""
    /\ Wrote("init_sql") \in writes
    /\ Cardinality({k \in 1..Len(DataDir.statements) :
                       DataDir.statements[k].event # ""}) = 3

\* script `old` is the beginning of script `new`, which goes on after it
Appended(old, new) ==
    /\ Len(old) > 0 /\ Len(old) < Len(new)
    /\ SubSeq(new, 1, Len(old)) = old

\* C36: the start-up script a start has written is, for a bootstrap start,
\* the script of the data directory an earlier bootstrap start initialized,
\* whether this start found the data directory empty or initialized, with
\* or without sentinel, marker file and earlier script; it is the script
\* the start found when that was written in the same mode, and it never is
\* the script the start found with more statements after it.
C36_ScriptDependsOnModeOnly ==
    (Wrote("init_sql") \in writes /\ loc.gr_enabled = 1) =>
       /\ config.gr_bootstrap = 1 => DataDir.statements = InitializedDataDir.statements
       /\ DataDir0.init_sql = DataDir.init_sql => DataDir.statements = DataDir0.statements
       /\ ~Appended(DataDir0.statements, DataDir.statements)
       /\ (config.gr_bootstrap = 0 /\ DataDir0.init_sql = "gr_bootstrap") =>
             DataDir.statements # DataDir0.statements

\* a join start has written its script over the script of an earlier
\* bootstrap start, on a data directory with sentinel and marker file
C36_Witness ==
    /\ pc = "handoff"
    /\ config.gr_bootstrap = 0
    /\ Wrote("init_sql") \in writes
    /\ DataDir0.sentinel /\ DataDir0.ibdata
    /\ DataDir0.init_sql = "gr_bootstrap"
    /\ DataDir.init_sql = "gr_join"
    /\ Len(DataDir.statements) < Len(DataDir0.statements)

FinalGrPort ==
    IF loc.gr_probe = 0
    THEN Min(AvailableFrom(portenv, loc.gr_requested + 1))
    ELSE loc.gr_requested

\* C38: in a start that has written the replication config, the local
\* address is the --gr-local-address host when given, else the LAN IP of
\* the start, followed by ':' and the negotiated coordination port; the
\* seeds without a port are completed with that port, and a server id
\* derived in this start is derived from that port; the config file holds
\* these values.
C38_OneCoordinationPort ==
    Wrote("gr_config") \in writes =>
       LET host == IF NonEmpty(config.gr_local_address)
                   THEN config.gr_local_address ELSE loc.lan_ip
       IN
       /\ config.gr_port = FinalGrPort
       /\ loc.gr_local_address = host \o <<":">> \o Itoa(FinalGrPort)
       /\ loc.seeds_list = IF NonEmpty(config.gr_seeds)
                           THEN ClaimedSeeds(config.gr_seeds, FinalGrPort)
                           ELSE <<>>
       /\ ~ServerIdFromFile(fs0) =>
             loc.server_id = ClaimedServerId(loc.lan_ip, FinalGrPort)
       /\ fs.gr_config[1].local_address = loc.gr_local_address
       /\ fs.gr_config[1].seeds = loc.seeds_list
       /\ fs.gr_config[1].server_id = loc.server_id

\* the default coordination port was occupied and the scan moved on: the
\* config carries the new port in the local address and in a seed
C38_Witness ==
    /\ pc = "handoff"
    /\ Wrote("gr_config") \in writes
    /\ loc.gr_probe = 0
    /\ loc.gr_requested = GR_DEFAULT_PORT
    /\ config.gr_port > GR_DEFAULT_PORT + 1
    /\ NonEmpty(config.gr_seeds)
    /\ fs.gr_config[1].seeds # config.gr_seeds
    /\ fs.gr_config[1].local_address = loc.lan_ip \o <<":">> \o Itoa(config.gr_port)

\* main() is past the construction of the argument vector
VectorBuilt == pc = "handoff" \/ exit_reason \in {"dry_run", "execv_failed"}

\* the optional arguments of the vector
OptionalArgs ==
    {k \in 1..Len(new_argv) :
        new_argv[k].opt \in {"--defaults-extra-file", "--init-file", "--port"}}

\* C39: whatever the combination of replication enabled or not, start-up
\* script created or not and database port set or not, the vector main()
\* has filled holds as many arguments as were counted for the allocation
\* (so the NULL after them is inside the new_argc + 1 slots and every slot
\* before it is written): the seven fixed ones and one for each of the
\* three conditions that holds.
C39_ArgumentVectorBound ==
    VectorBuilt =>
       /\ Len(new_argv) = loc.new_argc
       /\ Len(new_argv) + 1 <= loc.new_argc + 1
       /\ loc.new_argc = 7 + Cardinality(OptionalArgs)
       /\ Cardinality(OptionalArgs) =
             Cardinality({c \in {"gr", "sql", "port"} :
                             \/ c = "gr" /\ loc.gr_enabled = 1
                             \/ c = "sql" /\ loc.init_sql_created = 1
                             \/ c = "port" /\ config.mysql_port > 0})

\* the shortest and the longest vector: nothing optional, and all three
C39_Witness ==
    /\ VectorBuilt
    /\ \/ /\ loc.gr_enabled = 0 /\ loc.init_sql_created = 0 /\ config.mysql_port = 0
          /\ Len(new_argv) = 7
       \/ /\ loc.gr_enabled = 1 /\ loc.init_sql_created = 1 /\ config.mysql_port > 0
          /\ Len(new_argv) = 10
    /\ loc.new_argc = Len(new_argv)

====
